---------------------------- MODULE Spec2Model ----------------------------
(***************************************************************************)
(* tiny-instancer: the instance lifecycle (start_instance, stop_instance), *)
(* the per-key redis lock (instance_lock) and the background prunner       *)
(* (instance_prunner), against a container daemon whose containers and     *)
(* networks are the only persistent state.                                 *)
(*                                                                         *)
(* Abstractions.  Names that the code builds with f-strings are tuples of  *)
(* their parts.  A daemon call either has its effect or fails (a           *)
(* DockerError); the number of injected failures in one behaviour is       *)
(* bounded by MaxFaults.  The redis lock is a key holding the token of its *)
(* owner; the lease (REDIS_LOCK_TIMEOUT_SECONDS) can run out while the     *)
(* owner is at a step whose duration the code does not bound (image pull). *)
(***************************************************************************)
EXTENDS Integers, Sequences, FiniteSets, TLC

\* ------------------------------------------------------------------ bounds
MaxTime == 1            \* the clock runs over 0..MaxTime
MaxFaults == 1          \* daemon calls that fail in one behaviour
MaxInstanceIds == 2     \* distinct instance ids (uuid4 prefixes) in use at once
MaxOps == 2             \* start/stop requests the workers serve in one behaviour

\* ------------------------------------------------------- configuration
PREFIX == "ti"
DOCKER_MANAGER_NAME == "tiny-instancer"
INSTANCES_HOST == "example.org"

Workers == {"w1", "w2"}
Prunner == "prunner"
Procs == Workers \cup {Prunner}
NoProc == "nobody"
Teams == {"team-a"}

\* The catalog (challenges.py: challenges = load_challenges()), immutable.
challenges ==
  [c \in {"web1", "static1"} |->
     IF c = "web1"
     THEN [name |-> "web1", timeout |-> 1,
           containers |-> << [name |-> "app", egress |-> FALSE],
                             [name |-> "bot", egress |-> TRUE] >>]
     ELSE [name |-> "static1", timeout |-> 1,
           containers |-> << [name |-> "app", egress |-> FALSE] >>]]

ChallengeNames == DOMAIN challenges
\* The challenge of the requests that run next to the prunner.
PrunnedNames == {"web1"}
\* The names a request can carry: those of the catalog and one that is not in it.
RequestNames == ChallengeNames \cup {"ghost"}
Keys == RequestNames \X Teams
NoKey == << "", "" >>

VARIABLES
  now,          \* timestamp()
  containers,   \* the daemon's containers
  networks,     \* the daemon's networks
  lock,         \* redis: key -> owner of the lock token, or NoProc
  proc,         \* per process: position and locals of the running operation
  prun,         \* the prunner loop's locals
  faults,       \* daemon failures injected so far
  ops,          \* requests served so far
  call          \* a call of a pure function: its arguments and its result

vars == << now, containers, networks, lock, proc, prun, faults, ops, call >>

\* ------------------------------------------------------ faulty variants
\* Deliberately wrong versions of operators defined below; the properties at
\* the end of the module must fail when one of them takes the place of the
\* operator it imitates.
\* A lock taken without a timeout: redis never drops the key of a dead owner.
LeaseNeverExpires(p) == FALSE
\* Container labels without the start time.
ManagedLabels_without_started_at(chal, team, host, started_at, expires_at, iid) ==
  [managed_by |-> DOCKER_MANAGER_NAME, challenge |-> chal, team_id |-> team,
   hostname |-> host, expires_at |-> expires_at, instance_id |-> iid]
\* A model validator that accepts every document.
validate_model_accepting(doc) == TRUE
\* The time left without the floor at zero.
remaining_time_signed(expires_at, t) ==
  IF expires_at # << >> /\ expires_at[1] # 0 THEN << expires_at[1] - t >> ELSE << >>
\* A container that is put on the egress network whatever its egress flag.
NewContainer_always_egress(chal, team, cont, iid, started_at, expires_at) ==
  [id |-> << << "ti", chal, team, cont.name >>, iid >>,
   name |-> << "ti", chal, team, cont.name >>,
   labels |-> [managed_by |-> DOCKER_MANAGER_NAME, challenge |-> chal, team_id |-> team,
               hostname |-> << chal, iid, INSTANCES_HOST >>, started_at |-> started_at,
               expires_at |-> expires_at, instance_id |-> iid],
   state |-> "created",
   nets |-> {<< "ti", "svc", chal, team, iid >>, << "ti", "eg", chal, team, iid >>}]
\* A catalog lookup that finds every name.
get_challenge_any(chal) == TRUE
\* A router name that takes the clock into the index.
router_name_with_clock(challenge, team_id, instance_id, container, i) ==
  << "ti", challenge.name, team_id, instance_id, container.name, i + now >>
\* A disconnect that deletes the networks in the same call.
Disconnected_and_deleted(N) ==
  [nets |-> {n \in networks : n.name \notin N},
   conts |-> {IF c.state = "running" THEN [c EXCEPT !.nets = c.nets \ N] ELSE c
                : c \in containers}]
\* Network labels whose expiry is taken from the clock when the network is
\* created, not from the start time of the instance.
NetworkLabels_at_clock(expires_at) ==
  [managed_by |-> DOCKER_MANAGER_NAME, expires_at |-> now + 1]
\* A challenge whose containers are all taken to be without egress.
AnyEgress_never(chal) == FALSE
\* A prunner whose loop does not catch what its tick raises: the exception of
\* the lock ends the process.
AfterStop_uncaught(pr, out) ==
  IF out = "LOCK_ERROR" THEN [pr EXCEPT !.pc = "terminated"]
  ELSE [pr EXCEPT !.pc = "instances", !.clean = pr.clean /\ out = "STOPPED"]
\* SET without NX: the attempt succeeds whoever holds the key.
do_acquire_without_nx(k) == TRUE
\* A release that leaves the key in redis.
ReleasedLock_kept(p, k) == lock
\* An exit that drops the exception raised in the body.
ReleaseOutcome_swallowed(acquired, owned, pending, ok) ==
  IF acquired /\ owned THEN ok ELSE "LOCK_ERROR"
\* Deletes that the daemon acknowledges without doing them.
delete_containers_noop(ids, F) == containers
delete_networks_noop(nets, N, F) == nets

\* ------------------------------------------------------------- helpers
Range(s) == {s[i] : i \in 1..Len(s)}

RECURSIVE SetToSeq(_)
SetToSeq(S) == IF S = {} THEN << >>
               ELSE LET x == CHOOSE y \in S : TRUE IN << x >> \o SetToSeq(S \ {x})

CanFault == faults < MaxFaults
FaultBudget == MaxFaults - faults
\* The subsets of S whose calls may fail within the remaining budget.
FailSets(S) == {F \in SUBSET S : Cardinality(F) <= FaultBudget}

\* Names (instances.py:237-240, 281).
svc_net(chal, team, iid) == << PREFIX, "svc", chal, team, iid >>
eg_net(chal, team, iid) == << PREFIX, "eg", chal, team, iid >>
container_name(chal, team, cname) == << PREFIX, chal, team, cname >>
hostname(chal, iid) == << chal, iid, INSTANCES_HOST >>

\* ContainerLabels: the label names of a managed container.
ContainerLabelNames ==
  {"managed_by", "challenge", "team_id", "hostname", "started_at", "expires_at",
   "instance_id"}

ManagedLabels(chal, team, host, started_at, expires_at, iid) ==
  [managed_by |-> DOCKER_MANAGER_NAME, challenge |-> chal, team_id |-> team,
   hostname |-> host, started_at |-> started_at, expires_at |-> expires_at,
   instance_id |-> iid]

NetworkLabels(expires_at) ==
  [managed_by |-> DOCKER_MANAGER_NAME, expires_at |-> expires_at]

\* containers.list with _get_search_filters: managed_by, challenge, team_id.
get_containers(chal, team, running_only) ==
  {c \in containers :
     /\ c.labels.managed_by = DOCKER_MANAGER_NAME
     /\ c.labels.challenge = chal
     /\ c.labels.team_id = team
     /\ (running_only => c.state = "running")}

is_running(chal, team) == get_containers(chal, team, TRUE) # {}

ContainerById(id) == CHOOSE c \in containers : c.id = id
ContainerIds == {c.id : c \in containers}
NetworkNames == {n.name : n \in networks}

\* uuid.uuid4().hex[:12]: a value that no live resource, no running operation,
\* no container or network an operation has listed and no container the
\* prunner has seen carries.
UsedIds == {c.labels.instance_id : c \in containers}
           \cup {n.name[5] : n \in networks}
           \cup {proc[p].iid : p \in Procs}
           \cup {id[2] : id \in UNION {proc[p].instance_containers : p \in Procs}}
           \cup {n[5] : n \in UNION {proc[p].networks_to_remove \cup Range(proc[p].names)
                                        : p \in Procs}}
           \cup {id[2] : id \in prun.expired0 \cup prun.expired1}
           \cup {n[5] : n \in Range(prun.listed) \cup Range(prun.names_to_prune)}
FreshIds == (1..MaxInstanceIds) \ UsedIds
FreshId == CHOOSE i \in FreshIds : \A j \in FreshIds : i <= j

IdleProc ==
  [pc |-> "idle", op |-> "none", key |-> NoKey, acquired |-> FALSE,
   expired |-> FALSE, overlap |-> FALSE, faulted |-> FALSE,
   iid |-> 0, started_at |-> 0,
   created_containers |-> << >>, networks_created |-> << >>,
   instance_containers |-> {}, networks_to_remove |-> {},
   names |-> << >>, err |-> "none", result |-> << >>]

\* listed and names_to_prune are the locals of _prune_networks: the networks of
\* the listing that are still to be inspected, and the expired ones found so far.
\* expired0, expired1 and clean are history: the containers that were expired when
\* the last tick began, those of them that were still there when it ended, and
\* whether the tick met no failure (of a daemon call, of the lock, of its
\* stop_instance).
IdlePrun ==
  [pc |-> "sleep", now |-> 0, queue |-> << >>,
   listed |-> << >>, names_to_prune |-> << >>,
   expired0 |-> {}, expired1 |-> {}, clean |-> TRUE]

\* No pure function is being called.
NoCall == [fn |-> "none"]

Init ==
  /\ now = 0
  /\ containers = {}
  /\ networks = {}
  /\ lock = [k \in Keys |-> NoProc]
  /\ proc = [p \in Procs |-> IdleProc]
  /\ prun = IdlePrun
  /\ faults = 0
  /\ ops = 0
  /\ call = NoCall

\* The body of an operation: between a successful acquire and the release.
BodyPcs == {"start_svc", "start_eg", "start_create", "start_run",
            "rb_containers", "cn",
            "stop_stop", "stop_delete", "stop_nets", "stop_netdelete",
            "release"}
InBody(p) == proc[p].acquired /\ proc[p].pc \in BodyPcs /\ proc[p].op \in {"start", "stop"}

Set(p, r) == proc' = [proc EXCEPT ![p] = r]
Fault(r, n) == [r EXCEPT !.faulted = r.faulted \/ n > 0]

\* --------------------------------------------------------------- clock
Tick ==
  /\ now < MaxTime
  /\ now' = now + 1
  /\ UNCHANGED << containers, networks, lock, proc, prun, faults, ops, call >>

\* ------------------------------------------------------ daemon effects
\* network.disconnect(Force) of every endpoint that network.show() lists for
\* the networks N: the proxy and the running containers attached to them.
Disconnected(N) ==
  [nets |-> {IF n.name \in N THEN [n EXCEPT !.traefik = FALSE] ELSE n : n \in networks},
   conts |-> {IF c.state = "running" THEN [c EXCEPT !.nets = c.nets \ N] ELSE c
                : c \in containers}]

\* container.delete(force=True) of the containers ids, the calls in F failing.
delete_containers(ids, F) == {c \in containers : c.id \notin ids \ F}

\* network.delete() of the networks N out of nets, the calls in F failing.
delete_networks(nets, N, F) == {n \in nets : n.name \notin N \ F}

\* The networks the daemon refuses to delete: those with an active endpoint (the
\* proxy, a running container).
ActiveEndpoints ==
  {n.name : n \in {m \in networks :
                     m.traefik \/ \E c \in containers : c.state = "running" /\ m.name \in c.nets}}

\* _ensure_network(name, internal, expires_at) under the daemon outcome f:
\* "ok", "create" (networks.create fails), "subnet" (create fails with 400
\* 'fully subnetted'), "connect" (network.connect fails, not with 409).
\* networks.get succeeds only for a network that exists; connect is only called
\* for an internal network.
_ensure_network(name, internal, expires_at, f) ==
  IF name \in NetworkNames
  THEN {IF n.name = name /\ internal /\ f # "connect"
        THEN [n EXCEPT !.traefik = TRUE] ELSE n : n \in networks}
  ELSE IF f \in {"create", "subnet"} THEN networks
  ELSE networks \cup
         {[name |-> name, internal |-> internal,
           labels |-> NetworkLabels(expires_at),
           traefik |-> internal /\ f # "connect"]}

\* The outcomes the daemon can produce for _ensure_network.
EnsureOutcomes(name, internal) ==
  {"ok"} \cup (IF ~CanFault THEN {}
               ELSE (IF name \in NetworkNames THEN {} ELSE {"create", "subnet"})
                    \cup (IF internal THEN {"connect"} ELSE {}))

\* The exception _ensure_network raises under outcome f.
EnsureError(f) == IF f = "subnet" THEN "SUBNETS" ELSE "INTERNAL"

\* containers.create(config, name): the new container, in state created.
NewContainer(chal, team, cont, iid, started_at, expires_at) ==
  [id |-> << container_name(chal, team, cont.name), iid >>,
   name |-> container_name(chal, team, cont.name),
   labels |-> ManagedLabels(chal, team, hostname(chal, iid), started_at, expires_at, iid),
   state |-> "created",
   nets |-> {svc_net(chal, team, iid)}
            \cup (IF cont.egress THEN {eg_net(chal, team, iid)} ELSE {})]

\* ------------------------------------------------------ instance_lock
\* lock.acquire: SET key token NX PX lease.
do_acquire(k) == lock[k] = NoProc

\* proc with p at r, and overlap noted for the processes already in a body on
\* the key (history).
Entered(p, r, others) ==
  [q \in Procs |-> IF q = p THEN [r EXCEPT !.overlap = others # {}]
                   ELSE IF q \in others THEN [proc[q] EXCEPT !.overlap = TRUE]
                   ELSE proc[q]]

\* start_instance from the acquire to the first daemon write: is_running (a
\* DockerError in get_containers reads as "not running"), timestamp(), the
\* instance id.
start_enter(p, r, others) ==
  LET chal == r.key[1]  team == r.key[2] IN
  \E failed \in {FALSE} \cup (IF CanFault /\ is_running(chal, team) THEN {TRUE} ELSE {}) :
    /\ faults' = faults + (IF failed THEN 1 ELSE 0)
    /\ IF is_running(chal, team) /\ ~failed
       THEN proc' = Entered(p, [r EXCEPT !.err = "CONFLICT_RUNNING", !.pc = "release"], others)
       ELSE /\ FreshIds # {}
            /\ proc' = Entered(p, [Fault(r, IF failed THEN 1 ELSE 0) EXCEPT
                                     !.started_at = now, !.iid = FreshId,
                                     !.pc = "start_svc"], others)

\* stop_instance from the acquire to the first daemon write: get_containers (a
\* DockerError reads as "none"), then container.show() of each, which is not
\* guarded; the networks named {PREFIX}-... are collected.
stop_enter(p, r, others) ==
  LET found == {c.id : c \in get_containers(r.key[1], r.key[2], FALSE)} IN
  \E f \in {"ok"} \cup (IF CanFault /\ found # {} THEN {"list", "show"} ELSE {}) :
    /\ faults' = faults + (IF f = "ok" THEN 0 ELSE 1)
    /\ proc' = Entered(p,
         IF f = "list" \/ found = {}
         THEN [Fault(r, IF f = "ok" THEN 0 ELSE 1) EXCEPT !.err = "NOT_FOUND", !.pc = "release"]
         ELSE IF f = "show"
         THEN [Fault(r, 1) EXCEPT !.err = "DOCKER_ERROR", !.pc = "release"]
         ELSE [r EXCEPT !.instance_containers = found,
                        !.networks_to_remove =
                           {n \in UNION {c.nets : c \in get_containers(r.key[1], r.key[2], FALSE)} :
                              n[1] = PREFIX},
                        !.pc = "stop_stop"],
         others)

\* acquire(blocking=True) returned True: the token is in redis and the body runs.
EnterBody(p, r) ==
  LET others == {q \in Procs \ {p} : InBody(q) /\ proc[q].key = r.key}
      r1 == [r EXCEPT !.acquired = TRUE] IN
  /\ lock' = [lock EXCEPT ![r.key] = p]
  /\ IF r.op = "start" THEN start_enter(p, r1, others) ELSE stop_enter(p, r1, others)

\* instance_lock as the operation reaches it: the first attempt succeeds, or the
\* caller waits.
TryAcquire(p, r) ==
  IF do_acquire(r.key)
  THEN EnterBody(p, r)
  ELSE /\ Set(p, [r EXCEPT !.pc = "acquire"])
       /\ UNCHANGED << lock, faults >>

\* A later attempt of the blocked acquire succeeds.
AcquireOk(p) ==
  /\ proc[p].pc = "acquire"
  /\ do_acquire(proc[p].key)
  /\ EnterBody(p, proc[p])
  /\ UNCHANGED << now, containers, networks, prun, ops, call >>

\* blocking_timeout ran out after a failed attempt: acquire returns False and the
\* body raises NOT_ACQUIRED_ERROR.
AcquireTimeout(p) ==
  LET r == proc[p] IN
  /\ r.pc = "acquire"
  /\ ~do_acquire(r.key)
  /\ Set(p, [r EXCEPT !.acquired = FALSE, !.err = "CONFLICT_LOCK", !.pc = "release"])
  /\ UNCHANGED << now, containers, networks, lock, prun, faults, ops, call >>

\* The steps whose duration the code does not bound below the lease
\* (REDIS_LOCK_TIMEOUT_SECONDS): the image pull.
SlowPcs == {"start_create"}

\* The lease runs out: redis drops the key while its owner is still in the body.
LeaseExpire(p) ==
  LET r == proc[p] IN
  /\ InBody(p)
  /\ r.pc \in SlowPcs
  /\ lock[r.key] = p
  /\ lock' = [lock EXCEPT ![r.key] = NoProc]
  /\ Set(p, [r EXCEPT !.expired = TRUE])
  /\ UNCHANGED << now, containers, networks, prun, faults, ops, call >>

\* Redis still holds this call's token.
Owned(p) == lock[proc[p].key] = p

\* What the caller of the `async with` block gets: the finally clause runs
\* lock.release(), which raises LockError for a lock this call never acquired
\* and LockNotOwnedError for a token redis no longer holds; an exception raised in
\* a finally clause replaces the one in flight and the return value.
ReleaseOutcome(acquired, owned, pending, ok) ==
  IF ~acquired THEN "LOCK_ERROR"
  ELSE IF ~owned THEN "LOCK_ERROR"
  ELSE IF pending # "none" THEN pending
  ELSE ok

\* What the operation of p, at its release, is about to hand to its caller.
Outcome(p) ==
  ReleaseOutcome(proc[p].acquired, Owned(p), proc[p].err,
                 IF proc[p].op = "start" THEN "STARTING" ELSE "STOPPED")

\* lock.release(): delete the key if it still holds this call's token.
ReleasedLock(p, k) == IF lock[k] = p THEN [lock EXCEPT ![k] = NoProc] ELSE lock

\* ------------------------------------------------------------ prunner loop
\* await sleep(PRUNNER_INTERVAL_SECONDS): the tick is over, by its end or by the
\* `except Exception` of instance_prunner.
TickEnd(pr, conts, clean) ==
  [pr EXCEPT !.pc = "sleep", !.queue = << >>, !.now = 0,
             !.listed = << >>, !.names_to_prune = << >>,
             !.clean = pr.clean /\ clean,
             !.expired1 = pr.expired0 \cap {c.id : c \in conts}]

\* ------------------------------------------------------ start_instance
AnyEgress(chal) ==
  \E i \in 1..Len(challenges[chal].containers) : challenges[chal].containers[i].egress

\* Where the except clause of start_instance begins for the tracked resources
\* (_cleanup_containers and _cleanup_networks return at once on an empty list).
RollbackPc(r) ==
  IF r.created_containers # << >> THEN "rb_containers"
  ELSE IF r.networks_created # << >> THEN "cn"
  ELSE "release"

\* except Exception as err: run the rollback, then raise err (an HTTPException
\* as it is, anything else as HTTPException 500).
Failed(r, err) ==
  LET r1 == [r EXCEPT !.err = err, !.names = r.networks_created] IN
  [r1 EXCEPT !.pc = RollbackPc(r1)]

\* challenges.get(challenge_name): the name is in the catalog.
get_challenge(chal) == chal \in DOMAIN challenges

\* PUT /v1/instances/{challenge}: get_challenge (404 for a name that is not in
\* the catalog, before anything else), then the lock.
BeginStart(p, chal, team) ==
  /\ proc[p].pc = "idle"
  /\ ops < MaxOps
  /\ ops' = ops + 1
  /\ IF get_challenge(chal)
     THEN TryAcquire(p, [IdleProc EXCEPT !.op = "start", !.key = << chal, team >>])
     ELSE /\ Set(p, [IdleProc EXCEPT !.op = "start", !.key = << chal, team >>,
                                     !.err = "NOT_FOUND", !.pc = "return"])
          /\ UNCHANGED << lock, faults >>
  /\ UNCHANGED << now, containers, networks, prun, call >>

\* _ensure_network(svc_net, internal=True), then networks_created.append.
start_svc(p) ==
  LET r == proc[p]  chal == r.key[1]  team == r.key[2]
      net == svc_net(chal, team, r.iid)
      expires_at == r.started_at + challenges[chal].timeout IN
  /\ r.pc = "start_svc"
  /\ \E f \in EnsureOutcomes(net, TRUE) :
       /\ networks' = _ensure_network(net, TRUE, expires_at, f)
       /\ faults' = faults + (IF f = "ok" THEN 0 ELSE 1)
       /\ IF f = "ok"
          THEN Set(p, [r EXCEPT !.networks_created = Append(r.networks_created, net),
                                !.pc = IF AnyEgress(chal) THEN "start_eg" ELSE "start_create"])
          ELSE Set(p, Failed(Fault(r, 1), EnsureError(f)))
  /\ UNCHANGED << now, containers, lock, prun, ops, call >>

\* _ensure_network(eg_net, internal=False), then networks_created.append.
start_eg(p) ==
  LET r == proc[p]  chal == r.key[1]  team == r.key[2]
      net == eg_net(chal, team, r.iid)
      expires_at == r.started_at + challenges[chal].timeout IN
  /\ r.pc = "start_eg"
  /\ \E f \in EnsureOutcomes(net, FALSE) :
       /\ networks' = _ensure_network(net, FALSE, expires_at, f)
       /\ faults' = faults + (IF f = "ok" THEN 0 ELSE 1)
       /\ IF f = "ok"
          THEN Set(p, [r EXCEPT !.networks_created = Append(r.networks_created, net),
                                !.pc = "start_create"])
          ELSE Set(p, Failed(Fault(r, 1), EnsureError(f)))
  /\ UNCHANGED << now, containers, lock, prun, ops, call >>

\* One turn of `for container in challenge.containers`: images.get / images.pull,
\* the labels, containers.create (409 when the name is taken), then
\* created_containers.append.
start_create(p) ==
  LET r == proc[p]  chal == r.key[1]  team == r.key[2]
      i == Len(r.created_containers) + 1
      cont == challenges[chal].containers[i]
      expires_at == r.started_at + challenges[chal].timeout
      new == NewContainer(chal, team, cont, r.iid, r.started_at, expires_at)
      taken == \E c \in containers : c.name = new.name IN
  /\ r.pc = "start_create"
  /\ \E failed \in {taken} \cup (IF CanFault THEN {TRUE} ELSE {}) :
       IF failed
       THEN /\ Set(p, Failed(Fault(r, IF taken THEN 0 ELSE 1), "INTERNAL"))
            /\ faults' = faults + (IF taken THEN 0 ELSE 1)
            /\ UNCHANGED containers
       ELSE /\ containers' = containers \cup {new}
            /\ Set(p, [r EXCEPT !.created_containers = Append(r.created_containers, new.id),
                                !.pc = IF i = Len(challenges[chal].containers)
                                       THEN "start_run" ELSE "start_create"])
            /\ UNCHANGED faults
  /\ UNCHANGED << now, networks, lock, prun, ops, call >>

\* asyncio.gather(*start_tasks): every created container is started; the starts
\* in F fail, and so does the start of a container that is gone or that one of
\* its networks is gone.
start_run(p) ==
  LET r == proc[p]
      mine == Range(r.created_containers)
      ok == {c.id : c \in {d \in containers : d.id \in mine /\ d.nets \subseteq NetworkNames}}
      gone == mine \ ok IN
  /\ r.pc = "start_run"
  /\ \E F \in FailSets(ok) :
       /\ containers' = {IF c.id \in ok \ F THEN [c EXCEPT !.state = "running"] ELSE c
                           : c \in containers}
       /\ faults' = faults + Cardinality(F)
       /\ IF F \cup gone = {}
          THEN Set(p, [r EXCEPT !.pc = "release"])
          ELSE Set(p, Failed(Fault(r, Cardinality(F)), "INTERNAL"))
  /\ UNCHANGED << now, networks, lock, prun, ops, call >>

\* A rollback that force-deletes every managed container of the key, as a stop
\* does, instead of the containers this start has created.
_cleanup_containers_by_key(p) ==
  LET r == proc[p]
      mine == {c.id : c \in get_containers(r.key[1], r.key[2], FALSE)} IN
  /\ r.pc = "rb_containers"
  /\ \E F \in FailSets(mine) :
       /\ containers' = delete_containers(mine, F)
       /\ faults' = faults + Cardinality(F)
       /\ IF F = {}
          THEN Set(p, [r EXCEPT !.pc = IF r.names # << >> THEN "cn" ELSE "release"])
          ELSE Set(p, [Fault(r, Cardinality(F)) EXCEPT !.err = "DOCKER_ERROR", !.pc = "release"])
  /\ UNCHANGED << now, networks, lock, prun, ops, call >>

\* _cleanup_containers(created_containers): gather of delete(force=True), without
\* return_exceptions: a failing delete leaves the except clause with a DockerError
\* and _cleanup_networks is not reached.
_cleanup_containers(p) ==
  LET r == proc[p]
      mine == Range(r.created_containers)
      gone == mine \ ContainerIds IN
  /\ r.pc = "rb_containers"
  /\ \E F \in FailSets(mine \cap ContainerIds) :
       /\ containers' = delete_containers(mine, F)
       /\ faults' = faults + Cardinality(F)
       /\ IF F \cup gone = {}
          THEN Set(p, [r EXCEPT !.pc = IF r.names # << >> THEN "cn" ELSE "release"])
          ELSE Set(p, [Fault(r, Cardinality(F)) EXCEPT !.err = "DOCKER_ERROR", !.pc = "release"])
  /\ UNCHANGED << now, networks, lock, prun, ops, call >>

\* _cleanup_networks is over for process p with locals r: start_instance goes on
\* to re-raise (an exception of the cleanup replaces the one being handled), the
\* prunner ends its tick.
CleanupDone(p, r, raised) ==
  IF r.op = "prune"
  THEN /\ Set(p, IdleProc)
       /\ prun' = TickEnd(prun, containers', ~raised /\ ~r.faulted)
  ELSE /\ Set(p, [r EXCEPT !.err = IF raised THEN "DOCKER_ERROR" ELSE r.err,
                           !.pc = "release"])
       /\ UNCHANGED prun

\* _cleanup_networks(names).  The loop: networks.get (404: skip silently, another
\* error, for the networks in Skip: warn and skip), show and disconnect(Force) of
\* every endpoint, neither guarded.  Then gather of network.delete(), without
\* return_exceptions (the deletes in F fail).
_cleanup_networks(p) ==
  LET r == proc[p]
      present == Range(r.names) \cap NetworkNames IN
  /\ r.pc = "cn"
  /\ \/ \E Skip \in FailSets(present) :
          \E F \in {G \in SUBSET (present \ Skip) :
                      Cardinality(G) + Cardinality(Skip) <= FaultBudget} :
            LET N == present \ Skip
                d == Disconnected(N)
                n == Cardinality(Skip) + Cardinality(F) IN
            /\ networks' = delete_networks(d.nets, N, F)
            /\ containers' = d.conts
            /\ faults' = faults + n
            /\ CleanupDone(p, Fault(r, n), F # {})
     \/ /\ CanFault
        /\ \E j \in 1..Len(r.names) :
             /\ r.names[j] \in present
             /\ LET d == Disconnected({r.names[i] : i \in 1..(j - 1)} \cap present) IN
                /\ networks' = d.nets
                /\ containers' = d.conts
                /\ faults' = faults + 1
                /\ CleanupDone(p, Fault(r, 1), TRUE)
  /\ UNCHANGED << now, lock, ops, call >>

\* ------------------------------------------------------- stop_instance
\* DELETE /v1/instances/{challenge}: straight to the lock.
BeginStop(p, chal, team) ==
  /\ proc[p].pc = "idle"
  /\ ops < MaxOps
  /\ ops' = ops + 1
  /\ TryAcquire(p, [IdleProc EXCEPT !.op = "stop", !.key = << chal, team >>])
  /\ UNCHANGED << now, containers, networks, prun, call >>

\* gather(*stop_tasks, return_exceptions=True).
stop_stop(p) ==
  LET r == proc[p] IN
  /\ r.pc = "stop_stop"
  /\ \E F \in FailSets(r.instance_containers \cap ContainerIds) :
       /\ containers' = {IF c.id \in r.instance_containers \ F /\ c.state = "running"
                         THEN [c EXCEPT !.state = "exited"] ELSE c : c \in containers}
       /\ faults' = faults + Cardinality(F)
       /\ Set(p, [Fault(r, Cardinality(F)) EXCEPT !.pc = "stop_delete"])
  /\ UNCHANGED << now, networks, lock, prun, ops, call >>

\* return Instance(status=STOPPED, timeout=get_challenge(challenge_name).timeout)
Returned(r) ==
  [r EXCEPT !.err = IF get_challenge(r.key[1]) THEN "none" ELSE "NOT_FOUND",
            !.pc = "release"]

\* gather(*[c.delete(force=True) ...], return_exceptions=True).
stop_delete(p) ==
  LET r == proc[p] IN
  /\ r.pc = "stop_delete"
  /\ \E F \in FailSets(r.instance_containers \cap ContainerIds) :
       /\ containers' = delete_containers(r.instance_containers, F)
       /\ faults' = faults + Cardinality(F)
       /\ Set(p, IF r.networks_to_remove = {} THEN Returned(Fault(r, Cardinality(F)))
                 ELSE [Fault(r, Cardinality(F)) EXCEPT !.pc = "stop_nets"])
  /\ UNCHANGED << now, networks, lock, prun, ops, call >>

\* for net_name in networks_to_remove: networks.get and network.show, neither
\* guarded (a missing network or a daemon error leaves stop_instance); then
\* gather(*net_disconnect_tasks, return_exceptions=True).
stop_nets(p) ==
  LET r == proc[p]
      gone == r.networks_to_remove \ NetworkNames IN
  /\ r.pc = "stop_nets"
  /\ \/ /\ gone # {} \/ CanFault
        /\ faults' = faults + (IF gone = {} THEN 1 ELSE 0)
        /\ Set(p, [Fault(r, IF gone = {} THEN 1 ELSE 0) EXCEPT
                     !.err = "DOCKER_ERROR", !.pc = "release"])
        /\ UNCHANGED << networks, containers >>
     \/ /\ gone = {}
        /\ \E F \in FailSets(r.networks_to_remove) :
             LET d == Disconnected(r.networks_to_remove \ F) IN
             /\ networks' = d.nets
             /\ containers' = d.conts
             /\ faults' = faults + Cardinality(F)
             /\ Set(p, [Fault(r, Cardinality(F)) EXCEPT !.pc = "stop_netdelete"])
  /\ UNCHANGED << now, lock, prun, ops, call >>

\* gather(*net_remove_tasks, return_exceptions=True), then the return.  The
\* delete of a network that still has an active endpoint is refused, and the
\* refusal swallowed like any other error.
stop_netdelete(p) ==
  LET r == proc[p]
      busy == r.networks_to_remove \cap ActiveEndpoints IN
  /\ r.pc = "stop_netdelete"
  /\ \E F \in FailSets((r.networks_to_remove \cap NetworkNames) \ busy) :
       /\ networks' = delete_networks(networks, r.networks_to_remove, F \cup busy)
       /\ faults' = faults + Cardinality(F)
       /\ Set(p, Returned(Fault(r, Cardinality(F))))
  /\ UNCHANGED << now, containers, lock, prun, ops, call >>

\* ------------------------------------------------ leaving the `async with`
\* What the prunner does with the outcome of its stop_instance: HTTPException
\* and DockerError are caught per container, anything else ends the tick.
AfterStop(pr, out) ==
  IF out = "LOCK_ERROR" THEN TickEnd(pr, containers, FALSE)
  ELSE [pr EXCEPT !.pc = "instances", !.clean = pr.clean /\ out = "STOPPED"]

\* A finally clause that deletes the key whoever holds it.
Release_deleting(p) ==
  LET r == proc[p] IN
  /\ r.pc = "release"
  /\ lock' = [lock EXCEPT ![r.key] = NoProc]
  /\ Set(p, IdleProc)
  /\ prun' = IF p = Prunner
             THEN AfterStop([prun EXCEPT !.clean = prun.clean /\ ~r.faulted], Outcome(p))
             ELSE prun
  /\ UNCHANGED << now, containers, networks, faults, ops, call >>

\* finally: await lock.release(); then the result or the exception reaches the
\* caller.
Release(p) ==
  LET r == proc[p] IN
  /\ r.pc = "release"
  /\ lock' = IF r.acquired THEN ReleasedLock(p, r.key) ELSE lock
  /\ Set(p, IdleProc)
  /\ prun' = IF p = Prunner
             THEN AfterStop([prun EXCEPT !.clean = prun.clean /\ ~r.faulted], Outcome(p))
             ELSE prun
  /\ UNCHANGED << now, containers, networks, faults, ops, call >>

\* ------------------------------------------------------ instance_prunner
Expired(labels, t) == ~(labels.expires_at > t)

ManagedContainers == {c \in containers : c.labels.managed_by = DOCKER_MANAGER_NAME}
ManagedNetworks == {n \in networks : n.labels.managed_by = DOCKER_MANAGER_NAME}

\* now = timestamp(); containers.list(all=True, managed_by): a DockerError ends
\* the tick.  The containers that `expires_at > now` skips are left out of the
\* queue at once: their labels do not change.
TickBegin ==
  /\ prun.pc = "sleep"
  /\ \E failed \in {FALSE} \cup (IF CanFault THEN {TRUE} ELSE {}) :
       LET due == {c.id : c \in {d \in ManagedContainers : Expired(d.labels, now)}}
           pr == [prun EXCEPT !.now = now, !.clean = TRUE,
                              !.expired0 = due] IN
       /\ faults' = faults + (IF failed THEN 1 ELSE 0)
       /\ prun' = IF failed THEN TickEnd(pr, containers, FALSE)
                  ELSE [pr EXCEPT !.pc = "instances", !.queue = SetToSeq(due)]
  /\ UNCHANGED << now, containers, networks, lock, proc, ops, call >>

\* One turn of `for container in containers` in _prune_instances: show (a
\* DockerError: skip), then stop_instance(challenge, team_id).
_prune_instances(p) ==
  /\ p = Prunner
  /\ prun.pc = "instances"
  /\ proc[p].pc = "idle"
  /\ prun.queue # << >>
  /\ LET id == Head(prun.queue)
         rest == [prun EXCEPT !.queue = Tail(prun.queue)] IN
     \E failed \in {id \notin ContainerIds} \cup (IF CanFault THEN {TRUE} ELSE {}) :
       IF failed
       THEN /\ faults' = faults + (IF id \in ContainerIds THEN 1 ELSE 0)
            /\ prun' = [rest EXCEPT !.clean = rest.clean /\ id \notin ContainerIds]
            /\ UNCHANGED << proc, lock >>
       ELSE LET labels == ContainerById(id).labels IN
            /\ prun' = [rest EXCEPT !.pc = "stopping"]
            /\ TryAcquire(p, [IdleProc EXCEPT !.op = "stop",
                                !.key = << labels.challenge, labels.team_id >>])
  /\ UNCHANGED << now, containers, networks, ops, call >>

\* _prune_networks: networks.list(managed_by) and the inspect of each (a
\* DockerError ends the tick), names_to_prune, then _cleanup_networks.
_prune_networks(p) ==
  /\ p = Prunner
  /\ prun.pc = "instances"
  /\ proc[p].pc = "idle"
  /\ prun.queue = << >>
  /\ LET names_to_prune == {n.name : n \in {m \in ManagedNetworks :
                                              Expired(m.labels, prun.now)}} IN
     \E failed \in {FALSE} \cup (IF CanFault /\ ManagedNetworks # {} THEN {TRUE} ELSE {}) :
       /\ faults' = faults + (IF failed THEN 1 ELSE 0)
       /\ IF failed \/ names_to_prune = {}
          THEN /\ prun' = TickEnd(prun, containers, ~failed)
               /\ UNCHANGED proc
          ELSE /\ prun' = [prun EXCEPT !.pc = "cleanup"]
               /\ Set(p, [IdleProc EXCEPT !.op = "prune", !.pc = "cn",
                                          !.names = SetToSeq(names_to_prune)])
  /\ UNCHANGED << now, containers, networks, lock, ops, call >>

\* ------------------------------------------------------------------ Next
\* A step of the operation process p is running.
Body(p) ==
  \/ AcquireOk(p) \/ AcquireTimeout(p) \/ LeaseExpire(p) \/ Release(p)
  \/ start_svc(p) \/ start_eg(p) \/ start_create(p) \/ start_run(p)
  \/ _cleanup_containers(p) \/ _cleanup_networks(p)
  \/ stop_stop(p) \/ stop_delete(p) \/ stop_nets(p) \/ stop_netdelete(p)

Next ==
  \/ Tick
  \/ \E p \in Workers, chal \in PrunnedNames, team \in Teams :
       BeginStart(p, chal, team) \/ BeginStop(p, chal, team)
  \/ \E p \in Procs : Body(p)
  \/ TickBegin \/ _prune_instances(Prunner) \/ _prune_networks(Prunner)

Spec == Init /\ [][Next]_vars

\* ------------------------------------- the workers alone, one of them dying
\* An operation that failed before instance_lock hands its exception to the
\* caller.
Return(p) ==
  /\ proc[p].pc = "return"
  /\ Set(p, IdleProc)
  /\ UNCHANGED << now, containers, networks, lock, prun, faults, ops, call >>

\* The worker process of p dies inside its body: the finally clause of
\* instance_lock never runs and the key stays in redis with p's token.  The
\* process is gone for good; the requests go to the other worker.
Crash(p) ==
  /\ InBody(p)
  /\ Owned(p)
  /\ Set(p, [IdleProc EXCEPT !.pc = "crashed", !.op = proc[p].op, !.key = proc[p].key,
                             !.acquired = TRUE])
  /\ UNCHANGED << now, containers, networks, lock, prun, faults, ops, call >>

\* redis.lock(timeout=REDIS_LOCK_TIMEOUT_SECONDS): the key was SET with PX, and
\* redis drops it when the lease is over, whatever became of its owner.
LeaseExpireCrashed(p) ==
  /\ proc[p].pc = "crashed"
  /\ lock[proc[p].key] = p
  /\ lock' = [lock EXCEPT ![proc[p].key] = NoProc]
  /\ UNCHANGED << now, containers, networks, proc, prun, faults, ops, call >>

NextW ==
  \/ Tick
  \/ \E p \in Workers, chal \in RequestNames, team \in Teams :
       BeginStart(p, chal, team) \/ BeginStop(p, chal, team)
  \/ \E p \in Workers : Body(p)
  \/ \E p \in Workers : Return(p) \/ Crash(p) \/ LeaseExpireCrashed(p)

\* Redis expires a key on its own clock: the expiry of a dead owner's lease is
\* not something the system can put off forever.
SpecW ==
  /\ Init
  /\ [][NextW]_vars
  /\ \A p \in Workers : WF_vars(LeaseExpireCrashed(p))

\* ---------------------- the workers after a restart with another catalog
\* The daemon outlives the program and the catalog is read from files at import:
\* the program can come up with a catalog that no longer has a challenge whose
\* instance, started by the earlier run, is still in the daemon.  The earlier
\* run has also left a container of a stop whose delete failed: stopped, its
\* networks gone.
LeftoverChallenge == "ghost"
LeftoverContainer ==
  [NewContainer(LeftoverChallenge, "team-a", [name |-> "app", egress |-> FALSE], 1, 0, 1)
     EXCEPT !.state = "running"]
LeftoverExited ==
  [NewContainer("web1", "team-a", challenges["web1"].containers[2], 1, 0, 1)
     EXCEPT !.state = "exited"]

InitR ==
  /\ now = 0
  /\ containers = {LeftoverContainer, LeftoverExited}
  /\ networks = {[name |-> svc_net(LeftoverChallenge, "team-a", 1), internal |-> TRUE,
                  labels |-> NetworkLabels(1), traefik |-> TRUE]}
  /\ lock = [k \in Keys |-> NoProc]
  /\ proc = [p \in Procs |-> IdleProc]
  /\ prun = IdlePrun
  /\ faults = 0
  /\ ops = 0
  /\ call = NoCall

SpecR == InitR /\ [][NextW]_vars

\* ------------------------- the prunner and one worker, call by call
\* _prune_networks taken apart into its daemon calls, so that another operation
\* can remove a network between the listing and the inspect of that network.
\* networks.list(managed_by): a DockerError ends the tick.
_prune_networks_list(p) ==
  /\ p = Prunner
  /\ prun.pc = "instances"
  /\ proc[p].pc = "idle"
  /\ prun.queue = << >>
  /\ \E failed \in {FALSE} \cup (IF CanFault THEN {TRUE} ELSE {}) :
       /\ faults' = faults + (IF failed THEN 1 ELSE 0)
       /\ prun' = IF failed THEN TickEnd(prun, containers, FALSE)
                  ELSE [prun EXCEPT !.pc = "networks",
                                    !.listed = SetToSeq({n.name : n \in ManagedNetworks}),
                                    !.names_to_prune = << >>]
  /\ UNCHANGED << now, containers, networks, lock, proc, ops, call >>

\* One turn of `for network in networks`: the inspect by _query_json, which is
\* not guarded (a DockerError, the 404 of a network that is gone included, ends
\* the tick), then the test of expires_at and names_to_prune.append.
_prune_networks_inspect(p) ==
  /\ p = Prunner
  /\ prun.pc = "networks"
  /\ prun.listed # << >>
  /\ LET name == Head(prun.listed)
         gone == name \notin NetworkNames IN
     \E failed \in {gone} \cup (IF CanFault THEN {TRUE} ELSE {}) :
       /\ faults' = faults + (IF failed /\ ~gone THEN 1 ELSE 0)
       /\ prun' = IF failed THEN TickEnd(prun, containers, FALSE)
                  ELSE LET labels == (CHOOSE n \in networks : n.name = name).labels IN
                       [prun EXCEPT !.listed = Tail(prun.listed),
                                    !.names_to_prune =
                                       IF labels.expires_at > prun.now THEN @
                                       ELSE Append(@, name)]
  /\ UNCHANGED << now, containers, networks, lock, proc, ops, call >>

\* await _cleanup_networks(names_to_prune), which returns at once on an empty
\* list.
_prune_networks_cleanup(p) ==
  /\ p = Prunner
  /\ prun.pc = "networks"
  /\ prun.listed = << >>
  /\ IF prun.names_to_prune = << >>
     THEN /\ prun' = TickEnd(prun, containers, TRUE)
          /\ UNCHANGED proc
     ELSE /\ prun' = [prun EXCEPT !.pc = "cleanup"]
          /\ Set(p, [IdleProc EXCEPT !.op = "prune", !.pc = "cn",
                                     !.names = prun.names_to_prune])
  /\ UNCHANGED << now, containers, networks, lock, faults, ops, call >>

\* The worker that serves the requests next to the prunner.
Worker1 == "w1"

\* A step of the prunner process.
NextPrunner ==
  \/ TickBegin
  \/ _prune_instances(Prunner)
  \/ _prune_networks_list(Prunner)
  \/ _prune_networks_inspect(Prunner)
  \/ _prune_networks_cleanup(Prunner)
  \/ Body(Prunner)

NextP ==
  \/ Tick
  \/ \E chal \in PrunnedNames, team \in Teams :
       BeginStart(Worker1, chal, team) \/ BeginStop(Worker1, chal, team)
  \/ Body(Worker1)
  \/ NextPrunner

\* The prunner is a process of its own (__main__.py) whose daemon and redis
\* calls return and whose sleep ends: it is not held up forever.
SpecP ==
  /\ Init
  /\ [][NextP]_vars
  /\ WF_vars(NextPrunner)

\* ============================================================ pure functions
\* The functions below read nothing of the daemon, the lock or the processes:
\* each is applied to inputs drawn in its own initial states, with the rest of
\* the system as it is before the first request.
QuietAt(t) ==
  /\ now = t
  /\ containers = {}
  /\ networks = {}
  /\ lock = [k \in Keys |-> NoProc]
  /\ proc = [p \in Procs |-> IdleProc]
  /\ prun = IdlePrun
  /\ faults = 0
  /\ ops = 0

Quiet == QuietAt(0)

Frozen == UNCHANGED << now, containers, networks, lock, proc, prun, faults, ops >>

SeqsUpTo(S, n) == UNION {[1..k -> S] : k \in 0..n}

\* ------------------------------------------------------ load_challenges
\* The documents of one stream and the expose entries of one document.
MaxDocs == 2
MaxExpose == 2
MaxContainers == 2

DocNames == {"web1", "web2"}
DocContainers == {"app", "bot"}

\* A document of the stream: its name, its list of containers (each one by its
\* name), the container_name of each expose entry, and whether its fields have
\* the types and values the field validators ask for.
Documents ==
  [name : DocNames, containers : SeqsUpTo(DocContainers, MaxContainers),
   expose : SeqsUpTo(DocContainers, MaxExpose), typed : BOOLEAN]

Streams == SeqsUpTo(Documents, MaxDocs)

\* Challenge.validate_model: every expose entry names one of the containers.
validate_model(doc) ==
  LET container_names == {doc.containers[k] : k \in 1..Len(doc.containers)}
  IN  \A i \in 1..Len(doc.expose) : doc.expose[i] \in container_names

\* TypeAdapter(Challenge).validate_python(item): the field validators, then the
\* model validator; FALSE stands for the exception.
validate_python(doc) == doc.typed /\ validate_model(doc)

\* get_challenge on a loaded catalog: challenges.get(name), and HTTPException
\* 404 for None.
ChallengeNotFound == [status_code |-> "NOT_FOUND"]

challenges_get(catalog, name) ==
  IF name \in DOMAIN catalog THEN catalog[name] ELSE ChallengeNotFound

InitLoad ==
  /\ Quiet
  /\ \E stream \in Streams :
       call = [fn |-> "load_challenges", stream |-> stream, i |-> 0, result |-> << >>]

\* One turn of the loop over yaml.safe_load_all: a document that validates is
\* stored under its name, an exception is logged and the loop goes on.
load_challenges ==
  /\ call.fn = "load_challenges"
  /\ call.i < Len(call.stream)
  /\ LET item == call.stream[call.i + 1]
     IN  call' = [call EXCEPT
                    !.i = @ + 1,
                    !.result = IF validate_python(item)
                               THEN (item.name :> item) @@ call.result
                               ELSE call.result]
  /\ Frozen

SpecLoad == InitLoad /\ [][load_challenges]_vars

\* ------------------------------------------------------ get_instance
TRAEFIK_HTTP_PORT == 80
TRAEFIK_HTTPS_PORT == 443
TRAEFIK_TCP_PORT == 1337

ExposeKinds == {"https", "http", "tcp"}

expose_kind_to_port(kind) ==
  CASE kind = "http" -> TRAEFIK_HTTP_PORT
    [] kind = "https" -> TRAEFIK_HTTPS_PORT
    [] kind = "tcp" -> TRAEFIK_TCP_PORT

\* The clock and the expires_at labels of the status requests.  A label is
\* started_at + timeout of a start, both positive.
MaxClock == 3
MaxExpiresAt == 2

\* An optional value: None is << >>, a value v is << v >>.
None == << >>
Some(v) == << v >>

\* The expose entries of a challenge.
Exposes == [kind : ExposeKinds, container_name : DocContainers, container_port : {8080}]
ExposeLists == SeqsUpTo(Exposes, MaxExpose)

\* The states the daemon reports for a container.
DockerStates == {"created", "running", "exited"}

\* What containers.list(limit=1) and show() can hand to get_instance: nothing,
\* or one container of the key in any state.
Samples ==
  {<< >>} \cup
  {<< [state |-> st,
       labels |-> ManagedLabels("web1", "team-a", hostname("web1", iid), 0, e, iid)] >> :
     st \in DockerStates, e \in 1..MaxExpiresAt, iid \in 1..MaxInstanceIds}

\* _get_endpoints: one endpoint per expose entry on the entry port of its
\* kind, or None without a host.
_get_endpoints(challenge, host) ==
  IF host # None
  THEN Some([i \in 1..Len(challenge.expose) |->
               [kind |-> challenge.expose[i].kind, host |-> host[1],
                port |-> expose_kind_to_port(challenge.expose[i].kind)]])
  ELSE None

\* max(0, expires_at - timestamp()) if expires_at else None
remaining_time(expires_at, t) ==
  IF expires_at # None /\ expires_at[1] # 0
  THEN Some(IF expires_at[1] - t > 0 THEN expires_at[1] - t ELSE 0)
  ELSE None

\* get_instance after the listing: sample is the list it got, t the clock at
\* the return.
get_instance(sample, challenge, t) ==
  LET found == sample # << >>
      details == sample[1]
      expires_at == IF found THEN Some(details.labels.expires_at) ELSE None
      host == IF found THEN Some(details.labels.hostname) ELSE None
      status == IF ~found THEN "stopped"
                ELSE IF details.state = "running" THEN "running" ELSE "starting"
  IN  [status |-> status,
       timeout |-> challenge.timeout,
       endpoints |-> _get_endpoints(challenge, host),
       remaining_time |-> remaining_time(expires_at, t)]

InitStatus ==
  /\ \E t \in 0..MaxClock : QuietAt(t)
  /\ \E sample \in Samples, expose \in ExposeLists :
       call = [fn |-> "get_instance", sample |-> sample,
               challenge |-> [name |-> "web1", timeout |-> 1, expose |-> expose],
               done |-> FALSE]

get_instance_return ==
  /\ call.fn = "get_instance"
  /\ ~call.done
  /\ call' = [fn |-> "get_instance", sample |-> call.sample,
              challenge |-> call.challenge, done |-> TRUE,
              result |-> get_instance(call.sample, call.challenge, now)]
  /\ Frozen

SpecStatus == InitStatus /\ [][get_instance_return]_vars

\* ------------------------------- status requests beside starts and stops
\* The catalog entry of a name as get_instance reads it (the challenges of the
\* lifecycle model expose nothing).
CatalogEntry(chal) ==
  [name |-> chal, timeout |-> challenges[chal].timeout, expose |-> << >>]

\* A status that takes the lock of the key before it reads, and keeps it.
get_instance_request_locked(p, chal, team) ==
  /\ proc[p].pc = "idle"
  /\ ops < MaxOps
  /\ ops' = ops + 1
  /\ lock[<< chal, team >>] = NoProc
  /\ lock' = [lock EXCEPT ![<< chal, team >>] = p]
  /\ Set(p, [IdleProc EXCEPT !.op = "status", !.key = << chal, team >>, !.pc = "return"])
  /\ UNCHANGED << now, containers, networks, prun, faults, call >>

\* GET /v1/instances/{challenge}: get_instance.  get_containers(limit=1) hands
\* over any one container of the key (a DockerError of the listing reads as
\* "none"); its show() is not guarded; then get_challenge (404 for a name that
\* is not in the catalog) and the Instance.  No lock is taken.
get_instance_request(p, chal, team) ==
  /\ proc[p].pc = "idle"
  /\ ops < MaxOps
  /\ ops' = ops + 1
  /\ LET found == get_containers(chal, team, FALSE) IN
     \E f \in {"ok"} \cup (IF CanFault /\ found # {} THEN {"list", "show"} ELSE {}) :
       \E sample \in (IF f = "list" \/ found = {} THEN {<< >>}
                      ELSE {<< [state |-> c.state, labels |-> c.labels] >> : c \in found}) :
         /\ faults' = faults + (IF f = "ok" THEN 0 ELSE 1)
         /\ Set(p, [IdleProc EXCEPT
                      !.op = "status", !.key = << chal, team >>, !.pc = "return",
                      !.faulted = f # "ok",
                      !.err = IF f = "show" THEN "DOCKER_ERROR"
                              ELSE IF ~get_challenge(chal) THEN "NOT_FOUND"
                              ELSE "none",
                      !.result = IF f = "show" \/ ~get_challenge(chal) THEN None
                                 ELSE Some(get_instance(sample, CatalogEntry(chal), now))])
  /\ UNCHANGED << now, containers, networks, lock, prun, call >>

NextS ==
  \/ Tick
  \/ \E p \in Workers, chal \in RequestNames, team \in Teams :
       \/ BeginStart(p, chal, team)
       \/ BeginStop(p, chal, team)
       \/ get_instance_request(p, chal, team)
  \/ \E p \in Workers : Body(p)
  \/ \E p \in Workers : Return(p)

SpecS == Init /\ [][NextS]_vars

\* ------------------------------------------------------ memory_bytes
\* A string is a sequence of characters.  The characters of a limits.memory
\* value: three digits, the point, and the letters of the suffix table in both
\* cases.
MaxNumberLen == 3

DigitChars == {"0", "1", "5"}
LowerLetters == {"b", "k", "m", "g", "t", "i"}
UpperLetters == {"B", "K", "M", "G", "T", "I"}

DigitValue(c) == CASE c = "0" -> 0 [] c = "1" -> 1 [] c = "5" -> 5

\* str.lower
lower_char(c) ==
  CASE c = "B" -> "b" [] c = "K" -> "k" [] c = "M" -> "m"
    [] c = "G" -> "g" [] c = "T" -> "t" [] c = "I" -> "i"
    [] OTHER -> c

lower(str) == [i \in 1..Len(str) |-> lower_char(str[i])]

\* str.endswith
endswith(str, suffix) ==
  /\ Len(suffix) <= Len(str)
  /\ SubSeq(str, Len(str) - Len(suffix) + 1, Len(str)) = suffix

\* The dict `suffixes` in the order of its literal, which is the order in which
\* the loop visits it; the multiplier of an entry is 1024 ** power.
suffixes ==
  << [suffix |-> << "b" >>, power |-> 0],
     [suffix |-> << "k" >>, power |-> 1],
     [suffix |-> << "k", "b" >>, power |-> 1],
     [suffix |-> << "k", "i" >>, power |-> 1],
     [suffix |-> << "m" >>, power |-> 2],
     [suffix |-> << "m", "b" >>, power |-> 2],
     [suffix |-> << "m", "i" >>, power |-> 2],
     [suffix |-> << "g" >>, power |-> 3],
     [suffix |-> << "g", "b" >>, power |-> 3],
     [suffix |-> << "g", "i" >>, power |-> 3],
     [suffix |-> << "t" >>, power |-> 4],
     [suffix |-> << "t", "b" >>, power |-> 4] >>

\* The value of a string of digits.
RECURSIVE DigitsValue(_)
DigitsValue(str) ==
  IF str = << >> THEN 0
  ELSE 10 * DigitsValue(SubSeq(str, 1, Len(str) - 1)) + DigitValue(str[Len(str)])

\* int(str) succeeds: digits only, at least one.
is_int(str) == str # << >> /\ \A i \in 1..Len(str) : str[i] \in DigitChars

\* float(str) succeeds: digits with at most one point, at least one digit.
is_float(str) ==
  /\ \A i \in 1..Len(str) : str[i] \in DigitChars \cup {"."}
  /\ Cardinality({i \in 1..Len(str) : str[i] = "."}) <= 1
  /\ \E i \in 1..Len(str) : str[i] \in DigitChars

\* float(str) as units / 10 ** places.
float(str) ==
  LET points == {i \in 1..Len(str) : str[i] = "."}
      point == IF points = {} THEN Len(str) + 1 ELSE CHOOSE i \in points : TRUE
  IN  [units |-> DigitsValue(SubSeq(str, 1, point - 1) \o SubSeq(str, point + 1, Len(str))),
       places |-> IF points = {} THEN 0 ELSE Len(str) - point]

\* Python integers have no width; 1024 ** 4 has more than 32 bits.  A result is
\* kept as its digits in base 1024, most significant first, without leading
\* zeros.
Base == 1024

RECURSIVE ToLimbs(_)
ToLimbs(n) == IF n < Base THEN << n >> ELSE Append(ToLimbs(n \div Base), n % Base)

RECURSIVE Strip(_)
Strip(limbs) == IF Len(limbs) > 1 /\ limbs[1] = 0 THEN Strip(Tail(limbs)) ELSE limbs

RECURSIVE Pow10(_)
Pow10(d) == IF d = 0 THEN 1 ELSE 10 * Pow10(d - 1)

\* Long division of limbs by q, the remainder dropped.
RECURSIVE DivLimbs(_, _, _)
DivLimbs(limbs, q, rem) ==
  IF limbs = << >> THEN << >>
  ELSE LET cur == rem * Base + limbs[1]
       IN  << cur \div q >> \o DivLimbs(Tail(limbs), q, cur % q)

\* int(number * 1024 ** power)
truncated_product(number, power) ==
  Strip(DivLimbs(ToLimbs(number.units) \o [i \in 1..power |-> 0],
                 Pow10(number.places), 0))

ValueError == [ok |-> FALSE, error |-> "ValueError"]

\* Container.Limits.memory_bytes: the first suffix of the table, in its order,
\* that ends the lowered string decides the multiplier and what is parsed as the
\* number.
memory_bytes(memory) ==
  LET mem == lower(memory)
      hits == {i \in 1..Len(suffixes) : endswith(mem, suffixes[i].suffix)}
  IN  IF hits # {}
      THEN LET first == CHOOSE i \in hits : \A j \in hits : i <= j
               head == SubSeq(mem, 1, Len(mem) - Len(suffixes[first].suffix))
           IN  IF is_float(head)
               THEN [ok |-> TRUE,
                     bytes |-> truncated_product(float(head), suffixes[first].power)]
               ELSE ValueError
      ELSE IF is_int(mem)
           THEN [ok |-> TRUE, bytes |-> Strip(ToLimbs(DigitsValue(mem)))]
           ELSE ValueError

\* Decimal numbers: digits, or digits, a point and digits.
Numbers ==
  {str \in SeqsUpTo(DigitChars \cup {"."}, MaxNumberLen) :
     /\ is_float(str)
     /\ str[1] # "." /\ str[Len(str)] # "."}

\* The suffixes of the table in any letter case.
SuffixSpellings ==
  {str \in SeqsUpTo(LowerLetters \cup UpperLetters, 2) :
     \E i \in 1..Len(suffixes) : lower(str) = suffixes[i].suffix}

\* limits.memory values: a number and a suffix, or digits alone.
InitMemory ==
  /\ Quiet
  /\ \E number \in Numbers, suffix \in SuffixSpellings \cup {<< >>} :
       /\ suffix = << >> => is_int(number)
       /\ call = [fn |-> "memory_bytes", number |-> number, suffix |-> suffix,
                  memory |-> number \o suffix, done |-> FALSE]

memory_bytes_return ==
  /\ call.fn = "memory_bytes"
  /\ ~call.done
  /\ call' = [fn |-> "memory_bytes", number |-> call.number, suffix |-> call.suffix,
              memory |-> call.memory, done |-> TRUE,
              result |-> memory_bytes(call.memory)]
  /\ Frozen

SpecMemory == InitMemory /\ [][memory_bytes_return]_vars

\* ------------------------------------------- Container.validate_model
NANO_CPU_SCALE_ROOT == 1000

\* limbs * k + carry, for a k of at most 20 bits.
RECURSIVE MulLimbs(_, _, _)
MulLimbs(limbs, k, carry) ==
  IF limbs = << >> THEN (IF carry = 0 THEN << >> ELSE ToLimbs(carry))
  ELSE LET cur == limbs[Len(limbs)] * k + carry
       IN  Append(MulLimbs(SubSeq(limbs, 1, Len(limbs) - 1), k, cur \div Base), cur % Base)

\* n * NANO_CPU_SCALE, which is 1000 ** 3.
times_nano(n) ==
  MulLimbs(MulLimbs(MulLimbs(ToLimbs(n), NANO_CPU_SCALE_ROOT, 0),
                    NANO_CPU_SCALE_ROOT, 0),
           NANO_CPU_SCALE_ROOT, 0)

\* Container.Limits.nano_cpus: 0 for the empty string; millicores for a string
\* ending in 'm' (int of what precedes it); else int(float(cpu) * 10 ** 9).
nano_cpus(cpu) ==
  IF cpu = << >> THEN [ok |-> TRUE, nano |-> << 0 >>]
  ELSE IF endswith(cpu, << "m" >>)
  THEN LET head == SubSeq(cpu, 1, Len(cpu) - 1)
       IN  IF is_int(head)
           THEN [ok |-> TRUE,
                 nano |-> Strip(DivLimbs(times_nano(DigitsValue(head)), 1000, 0))]
           ELSE ValueError
  ELSE IF is_float(cpu)
  THEN [ok |-> TRUE,
        nano |-> Strip(DivLimbs(times_nano(float(cpu).units), Pow10(float(cpu).places), 0))]
  ELSE ValueError

\* A number of limbs is positive.
Positive(limbs) == \E i \in 1..Len(limbs) : limbs[i] > 0

\* Container.validate_model: memory_bytes and nano_cpus are evaluated (a
\* ValueError of either fails the validation); a limit that is not positive is
\* warned about, and the container is returned.
Container_validate_model(container) ==
  LET mem == memory_bytes(container.limits.memory)
      cpu == nano_cpus(container.limits.cpu)
  IN  IF ~mem.ok \/ ~cpu.ok THEN ValueError
      ELSE [ok |-> TRUE,
            warnings |-> (IF Positive(mem.bytes) THEN {} ELSE {"memory"})
                         \cup (IF Positive(cpu.nano) THEN {} ELSE {"cpu"})
                         \cup (IF container.limits.pids_limit > 0 THEN {} ELSE {"pids_limit"})]

\* limits.memory values: a number followed by a suffix of the table, digits
\* alone, or a suffix alone.
MemoryValues ==
  {number \o suffixes[i].suffix : number \in Numbers \cup {<< >>}, i \in 1..Len(suffixes)}
  \cup {number \in Numbers : is_int(number)}

\* limits.cpu values: the empty string, cores, millicores, 'm' alone.
CpuValues ==
  {<< >>} \cup Numbers \cup {number \o << "m" >> : number \in Numbers \cup {<< >>}}

InitContainer ==
  /\ Quiet
  /\ \E memory \in MemoryValues, cpu \in CpuValues, pids_limit \in {0, 1024} :
       call = [fn |-> "Container.validate_model",
               container |-> [name |-> "app",
                              limits |-> [memory |-> memory, cpu |-> cpu,
                                          pids_limit |-> pids_limit]],
               done |-> FALSE]

Container_validate_model_return ==
  /\ call.fn = "Container.validate_model"
  /\ ~call.done
  /\ call' = [fn |-> "Container.validate_model", container |-> call.container,
              done |-> TRUE, result |-> Container_validate_model(call.container)]
  /\ Frozen

SpecContainer == InitContainer /\ [][Container_validate_model_return]_vars

\* ------------------------------------------------------- container names
\* Names as the strings they are: sequences of characters.
MaxNameLen == 2
NameChars ==
  {"a", "b", "c", "d", "e", "f", "g", "h", "i", "j", "k", "l", "m", "n", "o", "p", "q",
   "r", "s", "t", "u", "v", "w", "x", "y", "z",
   "0", "1", "2", "3", "4", "5", "6", "7", "8", "9", "-"}

\* re.fullmatch(r'[a-z0-9-]+', name)
require_valid_name(name) ==
  /\ Len(name) >= 1
  /\ \A i \in 1..Len(name) : name[i] \in NameChars

\* The names of challenges and containers that load_challenges lets through,
\* and the team ids of the sessions (str(team_id) of the auth provider).
SpelledNames == {name \in SeqsUpTo({"a", "-", "_"}, MaxNameLen) : require_valid_name(name)}
TeamIds == SeqsUpTo({"a", "-"}, MaxNameLen) \ {<< >>}
NameTriples == [challenge_name : SpelledNames, team_id : TeamIds, name : SpelledNames]

PREFIX_chars == << "t", "i" >>

\* f'{config.PREFIX}-{challenge_name}-{team_id}-{container.name}'
container_name_str(challenge_name, team_id, name) ==
  PREFIX_chars \o << "-" >> \o challenge_name \o << "-" >> \o team_id \o << "-" >> \o name

\* containers.create(name=container_name) for a container of one key, then for a
\* container of another: the daemon answers the second with 409 when the name is
\* that of the first.
containers_create(first, second) ==
  LET n1 == container_name_str(first.challenge_name, first.team_id, first.name)
      n2 == container_name_str(second.challenge_name, second.team_id, second.name) IN
  [first |-> n1, second |-> n2, conflict |-> n1 = n2]

InitNames ==
  /\ Quiet
  /\ \E first \in NameTriples, second \in NameTriples :
       call = [fn |-> "containers.create", first |-> first, second |-> second,
               done |-> FALSE]

containers_create_return ==
  /\ call.fn = "containers.create"
  /\ ~call.done
  /\ call' = [fn |-> "containers.create", first |-> call.first, second |-> call.second,
              done |-> TRUE, result |-> containers_create(call.first, call.second)]
  /\ Frozen

SpecNames == InitNames /\ [][containers_create_return]_vars

\* ------------------------------------------------------ _add_expose_labels
TRAEFIK_HTTP_ENTRYPOINT == "web"
TRAEFIK_HTTPS_ENTRYPOINT == "websecure"
TRAEFIK_TCP_ENTRYPOINT == "tcp"

\* The invocations of the labeler on the same inputs.
MaxCalls == 2

\* str(n) for a natural number.
DecimalDigit(d) ==
  CASE d = 0 -> "0" [] d = 1 -> "1" [] d = 2 -> "2" [] d = 3 -> "3" [] d = 4 -> "4"
    [] d = 5 -> "5" [] d = 6 -> "6" [] d = 7 -> "7" [] d = 8 -> "8" [] d = 9 -> "9"

RECURSIVE str(_)
str(n) == IF n < 10 THEN << DecimalDigit(n) >>
          ELSE Append(str(n \div 10), DecimalDigit(n % 10))

\* f'{PREFIX}-{challenge.name}-{team_id}-{instance_id}-{container.name}-{i}'
router_name(challenge, team_id, instance_id, container, i) ==
  << PREFIX, challenge.name, team_id, instance_id, container.name, i >>

\* The labels of one expose entry.  A label key 'traefik.<proto>.<what>.<name>.<tail>'
\* is the tuple of its parts.
ExposeLabels(host, expose, rn) ==
  CASE expose.kind = "tcp" ->
         (<< "traefik", "tcp", "routers", rn, "rule" >> :> << "HostSNI", host >>)
         @@ (<< "traefik", "tcp", "routers", rn, "entrypoints" >> :> TRAEFIK_TCP_ENTRYPOINT)
         @@ (<< "traefik", "tcp", "routers", rn, "service" >> :> rn)
         @@ (<< "traefik", "tcp", "routers", rn, "tls.passthrough" >> :> "true")
         @@ (<< "traefik", "tcp", "services", rn, "loadbalancer.server.port" >>
               :> str(expose.container_port))
    [] expose.kind = "http" ->
         (<< "traefik", "http", "routers", rn, "rule" >> :> << "Host", host >>)
         @@ (<< "traefik", "http", "routers", rn, "entrypoints" >> :> TRAEFIK_HTTP_ENTRYPOINT)
         @@ (<< "traefik", "http", "routers", rn, "service" >> :> rn)
         @@ (<< "traefik", "http", "services", rn, "loadbalancer.server.port" >>
               :> str(expose.container_port))
    [] expose.kind = "https" ->
         (<< "traefik", "http", "routers", rn, "rule" >> :> << "Host", host >>)
         @@ (<< "traefik", "http", "routers", rn, "entrypoints" >> :> TRAEFIK_HTTPS_ENTRYPOINT)
         @@ (<< "traefik", "http", "routers", rn, "tls" >> :> "true")
         @@ (<< "traefik", "http", "routers", rn, "service" >> :> rn)
         @@ (<< "traefik", "http", "services", rn, "loadbalancer.server.port" >>
               :> str(expose.container_port))

\* The loop `for i, expose in enumerate(challenge.expose)` from entry k on
\* (enumerate counts from 0): entries of other containers are skipped, the
\* labels of an entry are assigned into the dict.
RECURSIVE AddFrom(_, _, _, _, _, _, _)
AddFrom(k, host, labels, challenge, container, team_id, instance_id) ==
  IF k > Len(challenge.expose) THEN labels
  ELSE LET expose == challenge.expose[k]
           rn == router_name(challenge, team_id, instance_id, container, k - 1)
           next == IF expose.container_name # container.name THEN labels
                   ELSE ExposeLabels(host, expose, rn) @@ labels
       IN  AddFrom(k + 1, host, next, challenge, container, team_id, instance_id)

_add_expose_labels(host, labels, challenge, container, team_id, instance_id) ==
  AddFrom(1, host, labels, challenge, container, team_id, instance_id)

\* The traefik labels start_instance has put into the dict before the call.
BaseLabels(challenge, team_id, instance_id) ==
  IF challenge.expose # << >>
  THEN (<< "traefik", "enable" >> :> "true")
       @@ (<< "traefik", "docker", "network" >> :> svc_net(challenge.name, team_id, instance_id))
  ELSE << >>

InitLabeler ==
  /\ Quiet
  /\ \E expose \in ExposeLists, cname \in DocContainers,
        iid \in 1..MaxInstanceIds, hid \in 1..MaxInstanceIds :
       call = [fn |-> "_add_expose_labels",
               challenge |-> [name |-> "web1", timeout |-> 1, expose |-> expose],
               container |-> [name |-> cname],
               team_id |-> "team-a", instance_id |-> iid,
               host |-> hostname("web1", hid),
               calls |-> << >>]

\* One invocation on the inputs of the call, with a fresh dict; the clock of
\* the invocation is noted next to its result.
labeler_call ==
  /\ call.fn = "_add_expose_labels"
  /\ Len(call.calls) < MaxCalls
  /\ call' = [call EXCEPT !.calls =
                Append(@, [at |-> now,
                           daemon |-> containers,
                           labels |-> _add_expose_labels(
                                        call.host,
                                        BaseLabels(call.challenge, call.team_id, call.instance_id),
                                        call.challenge, call.container,
                                        call.team_id, call.instance_id)])]
  /\ Frozen

\* Between the invocations the clock moves on ...
labeler_clock ==
  /\ call.fn = "_add_expose_labels"
  /\ now < MaxClock
  /\ now' = now + 1
  /\ UNCHANGED << containers, networks, lock, proc, prun, faults, ops, call >>

\* ... and the daemon gets a container of another start.
labeler_daemon ==
  /\ call.fn = "_add_expose_labels"
  /\ containers = {}
  /\ containers' = {NewContainer("web1", "team-a", challenges["web1"].containers[1],
                                 1, now, now + 1)}
  /\ UNCHANGED << now, networks, lock, proc, prun, faults, ops, call >>

NextLabeler == labeler_call \/ labeler_clock \/ labeler_daemon

SpecLabeler == InitLabeler /\ [][NextLabeler]_vars

\* ============================================================ properties
\* The operation of p hands its result (or its exception) to the caller.
Returns(p) == proc[p].pc = "release" /\ proc'[p].pc = "idle"

\* The operation of p gets the lock and runs its first reads.
Enters(p) == ~proc[p].acquired /\ proc'[p].acquired

SameKey(p, q) == proc[p].key = proc[q].key

\* The managed containers of a key, of one instance of a key, and the networks
\* named after that instance.
KeyContainers(k) ==
  {c \in containers : /\ c.labels.managed_by = DOCKER_MANAGER_NAME
                      /\ c.labels.challenge = k[1]
                      /\ c.labels.team_id = k[2]}
InstanceContainers(k, iid) == {c \in KeyContainers(k) : c.labels.instance_id = iid}
InstanceNetworks(k, iid) ==
  {n \in networks : n.name \in {svc_net(k[1], k[2], iid), eg_net(k[1], k[2], iid)}}
KeyInstanceIds(k) ==
  {c.labels.instance_id : c \in KeyContainers(k)}
  \cup {n.name[5] : n \in {m \in networks : m.name[3] = k[1] /\ m.name[4] = k[2]}}

Conflict == {"CONFLICT_RUNNING", "CONFLICT_LOCK"}

C2_TimeoutIsConflict ==
  \A p \in Procs :
    (proc[p].pc = "release" /\ ~proc[p].acquired)
      => /\ Outcome(p) = "CONFLICT_LOCK"
         /\ proc[p].iid = 0
         /\ proc[p].instance_containers = {}

\* ---- C3
\* C3: once a start that failed after it began provisioning is about to return
\* its failure, the daemon holds no managed container and no managed network of
\* that (challenge, team, instance_id).
C3_FailedStartLeavesNothing ==
  \A p \in Workers :
    (proc[p].pc = "release" /\ proc[p].op = "start" /\ proc[p].iid # 0
       /\ proc[p].err # "none")
      => /\ InstanceContainers(proc[p].key, proc[p].iid) = {}
         /\ InstanceNetworks(proc[p].key, proc[p].iid) = {}

\* ---- C4
\* C4, for two starts of one key that reach their return together: one of them
\* fails with CONFLICT (already running, or lock not acquired), and the managed
\* containers and networks of the key belong to at most one instance_id.
C4_OneStartWins ==
  \A p, q \in Workers :
    (p # q /\ SameKey(p, q)
       /\ proc[p].pc = "release" /\ proc[p].op = "start"
       /\ proc[q].pc = "release" /\ proc[q].op = "start")
      => /\ Outcome(p) \in Conflict \/ Outcome(q) \in Conflict
         /\ Cardinality(KeyInstanceIds(proc[p].key)) <= 1

C6_RunningMeansConflict ==
  [][\A p \in Workers :
       (Enters(p) /\ proc'[p].op = "start"
          /\ is_running(proc'[p].key[1], proc'[p].key[2]))
         => /\ proc'[p].err = "CONFLICT_RUNNING"
            /\ proc'[p].pc = "release"
            /\ UNCHANGED << containers, networks >>]_vars

C8_StopOfNothing ==
  [][\A p \in Procs :
       /\ (Enters(p) /\ proc'[p].op = "stop" /\ KeyContainers(proc'[p].key) = {})
            => /\ proc'[p].err = "NOT_FOUND"
               /\ proc'[p].pc = "release"
               /\ UNCHANGED << containers, networks >>
       /\ (Returns(p) /\ proc[p].op = "stop" /\ proc[p].err = "NOT_FOUND")
            => Outcome(p) = "NOT_FOUND"]_vars

\* A stop found no container of its key, with every daemon call answering.
C8_Witness ==
  \E p \in Procs :
    /\ proc[p].pc = "release" /\ proc[p].op = "stop" /\ proc[p].acquired
    /\ proc[p].err = "NOT_FOUND" /\ ~proc[p].faulted
    /\ KeyContainers(proc[p].key) = {}

\* ---- C9
\* C9: while a start is in its critical section, a stop of the same key is not
\* in its body (so it cannot leave a partial instance), and a stop that gave up
\* waiting hands CONFLICT to its caller.
C9_StopWaitsForStart ==
  \A p, q \in Procs :
    (p # q /\ SameKey(p, q) /\ proc[p].op = "start" /\ InBody(p)
       /\ proc[q].op = "stop")
      => /\ ~InBody(q)
         /\ proc[q].pc = "release" => Outcome(q) = "CONFLICT_LOCK"

\* ---- C10
\* C10: when an operation that acquired the key's lock returns, on whatever
\* path, the key no longer holds its token; if it still held it, the key is
\* free for the next operation.
C10_ReleasedOnExit ==
  [][\A p \in Procs :
       (Returns(p) /\ proc[p].acquired)
         => /\ lock'[proc[p].key] # p
            /\ Owned(p) => lock'[proc[p].key] = NoProc]_vars

\* A start that failed and rolled back is at its exit, still holding the lock,
\* while another operation waits for the key.
C10_Witness ==
  \E p, q \in Procs :
    /\ p # q /\ SameKey(p, q)
    /\ proc[p].pc = "release" /\ proc[p].acquired /\ Owned(p)
    /\ proc[p].err = "INTERNAL"
    /\ proc[q].pc = "acquire"

\* ---- C11
\* A dead worker's token is still the value of its key.
HeldByCrashed(p) == proc[p].pc = "crashed" /\ lock[proc[p].key] = p

\* C11: a key whose lock is held by a worker that died in its body does not
\* stay locked: the lease runs out and the key no longer holds the dead worker's
\* token, so a later start or stop can acquire it.
C11_CrashedHolderIsFreed ==
  \A p \in Workers : HeldByCrashed(p) ~> ~HeldByCrashed(p)

\* A worker died holding the key, and a later operation of the other worker has
\* acquired the key and is in its body.
C11_Witness ==
  \E p, q \in Workers :
    /\ proc[p].pc = "crashed"
    /\ q # p /\ SameKey(p, q) /\ InBody(q) /\ lock[proc[q].key] = q

\* ---- C12
\* C12: every network the controller created carries the managed_by and
\* expires_at labels, and every container it created carries all seven managed
\* labels.
C12_ManagedLabelsEverywhere ==
  /\ \A n \in networks :
       /\ {"managed_by", "expires_at"} \subseteq DOMAIN n.labels
       /\ n.labels.managed_by = DOCKER_MANAGER_NAME
  /\ \A c \in containers :
       /\ ContainerLabelNames \subseteq DOMAIN c.labels
       /\ c.labels.managed_by = DOCKER_MANAGER_NAME

\* An instance with both of its networks and a running container.
C12_Witness ==
  /\ \E c \in containers : c.state = "running"
  /\ \E n \in networks : n.internal
  /\ \E n \in networks : ~n.internal

\* ---- C13
\* The whole stream has been read.
Loaded == call.fn = "load_challenges" /\ call.i = Len(call.stream)

\* The document has an expose entry whose container is not one of its own.
NamesUnknownContainer(doc) ==
  \E i \in 1..Len(doc.expose) :
    \A k \in 1..Len(doc.containers) : doc.containers[k] # doc.expose[i]

\* The document passes every validation.
ValidDocument(doc) == doc.typed /\ ~NamesUnknownContainer(doc)

\* The places of the stream holding a valid document named n.
ValidPlaces(n) ==
  {j \in 1..Len(call.stream) :
     call.stream[j].name = n /\ ValidDocument(call.stream[j])}

\* C13 as stated: after loading, the name of every document whose expose names
\* an unknown container is absent from the catalog (get fails NOT_FOUND), and
\* every valid document of the stream is in the catalog.
C13_RejectedNameIsAbsent ==
  Loaded =>
    \A j \in 1..Len(call.stream) :
      LET doc == call.stream[j]
      IN  /\ NamesUnknownContainer(doc)
               => challenges_get(call.result, doc.name) = ChallengeNotFound
          /\ ValidDocument(doc)
               => challenges_get(call.result, doc.name) = doc

\* C13, amended: after loading, get(name) is the last valid document of the
\* stream with that name, and NOT_FOUND when the stream has no valid document of
\* that name; a document whose expose names an unknown container is never the
\* catalog's entry.
C13_LastValidDocumentWins ==
  Loaded =>
    /\ \A n \in DocNames :
         challenges_get(call.result, n) =
           IF ValidPlaces(n) = {} THEN ChallengeNotFound
           ELSE call.stream[CHOOSE j \in ValidPlaces(n) : \A k \in ValidPlaces(n) : k <= j]
    /\ \A j \in 1..Len(call.stream) :
         NamesUnknownContainer(call.stream[j])
           => challenges_get(call.result, call.stream[j].name) # call.stream[j]

\* A stream whose first document is rejected for its expose list and whose
\* second document, of another name, is loaded.
C13_Witness ==
  /\ Loaded
  /\ Len(call.stream) = 2
  /\ NamesUnknownContainer(call.stream[1])
  /\ call.stream[1].typed
  /\ ValidDocument(call.stream[2])
  /\ call.stream[2].name # call.stream[1].name
  /\ DOMAIN call.result = {call.stream[2].name}

\* ---- C14
\* A status request has returned.
StatusReturned == call.fn = "get_instance" /\ call.done

\* C14: the status is derived from at most one sampled container: without one
\* it is stopped with null endpoints and null remaining time; with one it is
\* running iff the daemon says "running" and starting otherwise, every endpoint
\* carries the hostname label, and the remaining time is expires_at - now
\* floored at zero, never negative.
C14_StatusIsDerivedFromSample ==
  StatusReturned =>
    LET r == call.result
        sample == call.sample
        expose == call.challenge.expose
    IN  IF sample = << >>
        THEN r.status = "stopped" /\ r.endpoints = << >> /\ r.remaining_time = << >>
        ELSE LET c == sample[1]
                 left == c.labels.expires_at - now
             IN  /\ r.status = "running" <=> c.state = "running"
                 /\ r.status = "starting" <=> c.state # "running"
                 /\ Len(r.endpoints) = 1
                 /\ Len(r.endpoints[1]) = Len(expose)
                 /\ \A i \in 1..Len(expose) :
                      /\ r.endpoints[1][i].host = c.labels.hostname
                      /\ r.endpoints[1][i].kind = expose[i].kind
                 /\ Len(r.remaining_time) = 1
                 /\ r.remaining_time[1] = (IF left > 0 THEN left ELSE 0)
                 /\ r.remaining_time[1] >= 0

\* A status request that sampled a container which is not running and whose
\* expiry is behind the clock.
C14_Witness ==
  /\ StatusReturned
  /\ call.sample # << >>
  /\ call.sample[1].state = "created"
  /\ call.sample[1].labels.expires_at < now
  /\ call.result.status = "starting"
  /\ call.result.remaining_time = << 0 >>
  /\ Len(call.challenge.expose) = 2

\* ---- C15
\* The start of p succeeds: every container was created and started.
StartSucceeds(p) ==
  /\ proc[p].op = "start"
  /\ proc[p].pc = "start_run"
  /\ proc'[p].pc = "release"
  /\ proc'[p].err = "none"

\* C15: when a start succeeds, the service network of the instance exists and
\* is internal; if the challenge has a container with egress, the egress network
\* of the instance exists and is not internal; every egress container is on
\* both networks and every other container on the service network alone; and
\* for a challenge without egress containers no egress network exists.
C15_EgressWiring ==
  [][\A p \in Workers :
       StartSucceeds(p) =>
         LET chal == proc[p].key[1]
             team == proc[p].key[2]
             iid == proc[p].iid
             svc == svc_net(chal, team, iid)
             eg == eg_net(chal, team, iid)
             conts == challenges[chal].containers
             egress == \E i \in 1..Len(conts) : conts[i].egress
         IN  /\ \E n \in networks' : n.name = svc /\ n.internal
             /\ egress => \E n \in networks' : n.name = eg /\ ~n.internal
             /\ \A i \in 1..Len(conts) :
                  \E c \in containers' :
                    /\ c.id = << container_name(chal, team, conts[i].name), iid >>
                    /\ c.nets = IF conts[i].egress THEN {svc, eg} ELSE {svc}
             /\ ~egress => \A n \in networks' : ~(n.name[2] = "eg" /\ n.name[3] = chal)
    ]_vars

\* Two starts have succeeded, one of the challenge with an egress container and
\* one of the challenge without.
C15_Witness ==
  \E p, q \in Workers :
    /\ proc[p].op = "start" /\ proc[p].pc = "release" /\ proc[p].err = "none"
    /\ proc[p].key[1] = "web1"
    /\ proc[q].op = "start" /\ proc[q].pc = "release" /\ proc[q].err = "none"
    /\ proc[q].key[1] = "static1"
    /\ \E c \in containers : c.state = "running" /\ Cardinality(c.nets) = 2

\* ---- C16
\* p is handed a start for a name that is not in the catalog.
StartsUnknown(p) ==
  /\ proc[p].pc = "idle"
  /\ proc'[p].op = "start"
  /\ proc'[p].key[1] \notin ChallengeNames

\* C16: a start for a name that is not in the catalog fails with NOT_FOUND; it
\* does not acquire the lock of the key, makes no daemon call and creates
\* nothing, neither when it is received nor when it returns.
C16_UnknownChallengeIsNotFound ==
  [][\A p \in Workers :
       /\ StartsUnknown(p) =>
            /\ proc'[p].pc = "return"
            /\ proc'[p].err = "NOT_FOUND"
            /\ ~proc'[p].acquired
            /\ UNCHANGED << lock, containers, networks, faults >>
       /\ (proc[p].pc = "return" /\ proc'[p] # proc[p]) =>
            /\ proc'[p] = IdleProc
            /\ UNCHANGED << lock, containers, networks, faults >>
    ]_vars

\* A start for an unknown name is about to return NOT_FOUND and the lock of its
\* key is free.
C16_Witness ==
  \E p \in Workers :
    /\ proc[p].pc = "return"
    /\ proc[p].op = "start"
    /\ proc[p].key[1] = "ghost"
    /\ proc[p].err = "NOT_FOUND"
    /\ lock[proc[p].key] = NoProc

\* ---- C17
\* The power of 1024 the table gives to a suffix: b 0; k, kb, ki 1; m, mb, mi 2;
\* g, gb, gi 3; t, tb 4; no suffix 0.
TablePower(suffix) ==
  IF suffix = << >> THEN 0
  ELSE CASE suffix[1] = "b" -> 0
         [] suffix[1] = "k" -> 1
         [] suffix[1] = "m" -> 2
         [] suffix[1] = "g" -> 3
         [] suffix[1] = "t" -> 4

\* C17: for a decimal number followed by a suffix of the table in any letter
\* case, or digits alone, memory_bytes is the number times the multiplier of the
\* suffix, truncated to an integer.
C17_MemoryBytesAgrees ==
  (call.fn = "memory_bytes" /\ call.done) =>
    call.result =
      [ok |-> TRUE,
       bytes |-> truncated_product(float(call.number), TablePower(lower(call.suffix)))]

PrunnerStep == proc'[Prunner] # proc[Prunner] \/ prun' # prun

\* The containers and networks a step stops, disconnects or deletes.
Touched == {c \in containers : c \notin containers'}
TouchedNetworks == {n \in networks : n \notin networks'}

\* C19: whatever the prunner stops, disconnects or deletes has an expires_at
\* label that is not greater than the clock at that moment.
C19_PrunnerTakesOnlyExpired ==
  [][PrunnerStep =>
       /\ \A c \in Touched : ~(c.labels.expires_at > now)
       /\ \A n \in TouchedNetworks : ~(n.labels.expires_at > now)
    ]_vars

\* ---- C20
\* The place of a phase of stop_instance in its order.
StopRank(pc) ==
  CASE pc = "stop_stop" -> 1
    [] pc = "stop_delete" -> 2
    [] pc = "stop_nets" -> 3
    [] pc = "stop_netdelete" -> 4
    [] pc = "release" -> 5
    [] OTHER -> 0

\* p takes a step of the body of a stop (its process dying is not one).
StopStep(p) ==
  /\ proc[p].op = "stop"
  /\ StopRank(proc[p].pc) \in 1..4
  /\ proc'[p] # proc[p]
  /\ proc'[p].pc # "crashed"

\* What a step does to the daemon.
StopsContainers ==
  \E c \in containers : \E d \in containers' : d.id = c.id /\ d.state # c.state
DeletesContainers == ContainerIds' # ContainerIds
DisconnectsNetworks ==
  \/ \E c \in containers : \E d \in containers' : d.id = c.id /\ d.nets # c.nets
  \/ \E n \in networks : \E m \in networks' : m.name = n.name /\ m.traefik # n.traefik
DeletesNetworks == NetworkNames' # NetworkNames

\* C20: within one stop the phases follow each other: the stops of the
\* containers, then the deletes of the containers, then the disconnects, then
\* the deletes of the networks.  A step of the stop belongs to one phase, does
\* only what that phase does, and leads to a later phase.
C20_StopPhasesInOrder ==
  [][\A p \in Workers :
       StopStep(p) =>
         /\ StopRank(proc'[p].pc) > StopRank(proc[p].pc)
         /\ StopsContainers => proc[p].pc = "stop_stop"
         /\ DeletesContainers => proc[p].pc = "stop_delete"
         /\ DisconnectsNetworks => proc[p].pc = "stop_nets"
         /\ DeletesNetworks => proc[p].pc = "stop_netdelete"
    ]_vars

\* A stop that has stopped and deleted its containers, disconnected its
\* networks and deleted them, about to return.
C20_Witness ==
  \E p \in Workers :
    /\ proc[p].op = "stop"
    /\ proc[p].pc = "release"
    /\ proc[p].err = "none"
    /\ proc[p].instance_containers # {}
    /\ proc[p].instance_containers \cap ContainerIds = {}
    /\ proc[p].networks_to_remove # {}
    /\ proc[p].networks_to_remove \cap NetworkNames = {}

\* ---- C21
\* p takes a step of the provisioning of a start (its process dying is not one,
\* nor is the note that another process entered a body on its key).
StartStep(p) ==
  /\ proc[p].op = "start"
  /\ proc[p].pc \in {"start_svc", "start_eg", "start_create", "start_run"}
  /\ [proc'[p] EXCEPT !.overlap = proc[p].overlap] # proc[p]
  /\ proc'[p].pc # "crashed"

\* The containers a step creates and those it starts.
CreatedNow == {c \in containers' : c.id \notin ContainerIds}
StartedNow ==
  {c \in containers : \E d \in containers' :
                        d.id = c.id /\ c.state # "running" /\ d.state = "running"}

\* C21: within one start, the service network, and the egress network when a
\* container of the challenge has egress, have been ensured before a container
\* is created; the containers are created one per step in the order of the
\* catalog; a container is started only when every container of the challenge
\* has been created.
C21_StartPhasesInOrder ==
  [][\A p \in Workers :
       StartStep(p) =>
         LET chal == proc[p].key[1]
             team == proc[p].key[2]
             catalog == challenges[chal].containers
             ensured == Range(proc[p].networks_created)
             n == Len(proc[p].created_containers) IN
         /\ Cardinality(CreatedNow) <= 1
         /\ \A c \in CreatedNow :
              /\ << PREFIX, "svc", chal, team, proc[p].iid >> \in ensured
              /\ (\E i \in 1..Len(catalog) : catalog[i].egress) =>
                   << PREFIX, "eg", chal, team, proc[p].iid >> \in ensured
              /\ n < Len(catalog)
              /\ c.name = << PREFIX, chal, team, catalog[n + 1].name >>
              /\ c.state = "created"
              /\ proc'[p].created_containers = Append(proc[p].created_containers, c.id)
         /\ StartedNow # {} =>
              /\ n = Len(catalog)
              /\ CreatedNow = {}
              /\ \A i \in 1..n :
                   proc[p].created_containers[i][1] = << PREFIX, chal, team, catalog[i].name >>
    ]_vars

\* A start of the two-container challenge that has ensured both networks and
\* created app and then bot, neither of them started yet.
C21_Witness ==
  \E p \in Workers :
    /\ proc[p].op = "start"
    /\ proc[p].pc = "start_run"
    /\ proc[p].key[1] = "web1"
    /\ Len(proc[p].networks_created) = 2
    /\ Len(proc[p].created_containers) = 2
    /\ \A i \in 1..2 :
         \E c \in containers : c.id = proc[p].created_containers[i] /\ c.state = "created"


\* ---- C22
\* A provisioning step of the start of p fails: the except clause is entered.
FailsNow(p) == StartStep(p) /\ proc'[p].err # "none"

\* p takes a step of the rollback of a start.
RollbackStep(p) ==
  /\ proc[p].op = "start"
  /\ proc[p].pc \in {"rb_containers", "cn"}
  /\ [proc'[p] EXCEPT !.overlap = proc[p].overlap] # proc[p]
  /\ proc'[p].pc # "crashed"

\* C22: when a provisioning step of a start fails, start_instance raises only
\* after the rollback of the tracked containers and of the tracked networks has
\* been run, and what it raises is the error of the failed step: the classified
\* error as it is, anything else as INTERNAL (a DockerError that nothing
\* catches is answered with HTTP 500 as well).
C22_ErrorAfterRollback ==
  [][\A p \in Workers :
       /\ FailsNow(p) =>
            /\ proc'[p].err \in {"SUBNETS", "INTERNAL"}
            /\ proc'[p].pc = "release" =>
                 proc[p].created_containers = << >> /\ proc[p].networks_created = << >>
       /\ RollbackStep(p) =>
            /\ \/ proc'[p].err = proc[p].err
               \/ proc[p].err = "INTERNAL" /\ proc'[p].err = "DOCKER_ERROR"
            /\ (proc[p].pc = "rb_containers" /\ proc'[p].pc = "release") =>
                 proc[p].networks_created = << >>
    ]_vars

\* ---- C23
\* The tracked containers and networks of p that are in the daemon.
TrackedContainers(p) == Range(proc[p].created_containers) \cap ContainerIds
TrackedNetworks(p) == Range(proc[p].networks_created) \cap NetworkNames

\* C23: in the rollback of a start each removal is attempted on its own: a
\* step of the rollback leaves behind at most as many of the resources it is
\* about as daemon calls failed in it, and a failure in the rollback of the
\* containers is followed by the rollback of the networks.
C23_RollbackStepsIndependent ==
  [][\A p \in Workers :
       RollbackStep(p) =>
         /\ proc[p].pc = "rb_containers" =>
              /\ Cardinality(TrackedContainers(p) \cap ContainerIds') <= faults' - faults
              /\ proc[p].networks_created # << >> => proc'[p].pc = "cn"
         /\ proc[p].pc = "cn" =>
              Cardinality(TrackedNetworks(p) \cap NetworkNames') <= faults' - faults
    ]_vars

\* ---- C24
\* C24: a daemon error in a teardown step of a stop is swallowed: every step of
\* the teardown leaves the stop without a pending exception, the stop reaches
\* its return only from its last phase (the deletes of the networks, or the
\* deletes of the containers when no network is to be removed), and what it
\* returns is STOPPED.
C24_StopSwallowsTeardownErrors ==
  [][\A p \in Workers :
       StopStep(p) =>
         /\ proc'[p].err = "none"
         /\ proc'[p].pc = "release" =>
              \/ proc[p].pc = "stop_netdelete"
              \/ proc[p].pc = "stop_delete" /\ proc[p].networks_to_remove = {}
    ]_vars

\* ---- C25
\* The prunner comes to a listed container that is gone: the show fails, the
\* loop goes on to the next container.
GoneContainerTolerated ==
  (/\ prun.pc = "instances"
   /\ prun.queue # << >>
   /\ Head(prun.queue) \notin ContainerIds
   /\ prun' # prun)
  => (prun'.pc = "instances" /\ prun'.queue = Tail(prun.queue))

\* The prunner comes to a listed network that is gone: the loop goes on to the
\* next network.
GoneNetworkTolerated ==
  (/\ prun.pc = "networks"
   /\ prun.listed # << >>
   /\ Head(prun.listed) \notin NetworkNames
   /\ prun' # prun)
  => (prun'.pc = "networks" /\ prun'.listed = Tail(prun.listed))

\* The cleanup of the expired networks finds one of them gone and no daemon call
\* fails: every other expired network is removed.
GoneNetworkSkipped ==
  (/\ proc[Prunner].op = "prune"
   /\ proc[Prunner].pc = "cn"
   /\ proc'[Prunner].pc # "cn"
   /\ Range(proc[Prunner].names) \ NetworkNames # {}
   /\ faults' = faults)
  => Range(proc[Prunner].names) \cap NetworkNames' = {}

\* C25: a container or a network that was listed in a tick and is gone when the
\* prunner comes to it is taken as already removed, and the tick goes on with
\* the other containers and networks.
C25_PrunnerToleratesGone ==
  [][GoneContainerTolerated /\ GoneNetworkTolerated /\ GoneNetworkSkipped]_vars

\* ---- C26
\* The stop_instance of the prunner comes back without having got the lock.
PrunnerStopNotAcquired ==
  /\ proc[Prunner].op = "stop"
  /\ proc[Prunner].pc = "release"
  /\ ~proc[Prunner].acquired
  /\ proc'[Prunner].pc = "idle"

\* C26: when the stop_instance the prunner calls for an expired container
\* fails because the lock of the key was not acquired, the tick goes on: the
\* loop over the listed containers continues with the containers that are left,
\* and the sweep of the networks follows.
C26_LockTimeoutKeepsTick ==
  [][PrunnerStopNotAcquired =>
       /\ prun'.pc = "instances"
       /\ prun'.queue = prun.queue
    ]_vars

\* ---- C27
\* C27: the loop of the prunner goes on for ever: whatever failed in a tick (a
\* daemon call, the lock, the stop of an instance), the prunner comes back to
\* its sleep and begins another tick, again and again.
C27_TicksForever == []<><<TickBegin>>_vars

\* A tick that met a failure is over, an expired container is still there, and
\* the prunner is asleep before its next tick.
C27_Witness ==
  /\ prun.pc = "sleep"
  /\ ~prun.clean
  /\ prun.expired1 # {}
  /\ proc[Prunner].pc = "idle"

\* ---- C28
\* p takes a step of a status: it is handed the request, or it returns.
StatusStep(p) ==
  /\ proc'[p] # proc[p]
  /\ \/ proc[p].pc = "idle" /\ proc'[p].op = "status"
     \/ proc[p].op = "status"

\* C28: a status never takes nor waits for the lock of its key and changes
\* nothing: each of its steps leaves the containers, the networks and the locks
\* as they are, the request is served in one go to its return, and an idle
\* worker can serve it whoever holds the lock of the key.
C28_StatusIsLockFreeAndReadOnly ==
  [][\A p \in Workers :
       /\ StatusStep(p) =>
            /\ UNCHANGED << lock, containers, networks >>
            /\ ~proc'[p].acquired
            /\ proc'[p].pc \in {"return", "idle"}
       /\ (proc[p].pc = "idle" /\ ops < MaxOps) =>
            \A chal \in RequestNames, team \in Teams :
              ENABLED get_instance_request(p, chal, team)
    ]_vars

\* A status of a key has its answer while the other worker is in the body of a
\* start on that key and holds its lock.
C28_Witness ==
  \E p, q \in Workers :
    /\ p # q
    /\ proc[p].op = "status"
    /\ proc[p].pc = "return"
    /\ proc[p].result # << >>
    /\ proc[p].result[1].status = "starting"
    /\ InBody(q)
    /\ proc[q].op = "start"
    /\ proc[q].key = proc[p].key
    /\ lock[proc[p].key] = q

\* ---- C29
\* C29: in every challenge of the loaded catalog the names of the containers
\* are pairwise distinct.
C29_LoadedContainerNamesDistinct ==
  Loaded =>
    \A n \in DOMAIN call.result :
      \A i, j \in 1..Len(call.result[n].containers) :
        i # j => call.result[n].containers[i] # call.result[n].containers[j]

\* ---- C30
\* C30: a container that passes the validation has a memory limit and a cpu
\* limit that parse to values greater than 0.
C30_AcceptedLimitsArePositive ==
  (call.fn = "Container.validate_model" /\ call.done /\ call.result.ok) =>
    /\ Positive(memory_bytes(call.container.limits.memory).bytes)
    /\ Positive(nano_cpus(call.container.limits.cpu).nano)

\* ---- C31
\* p, whose acquire timed out, takes a step of its way out: the timeout itself,
\* or the finally clause.
TimedOutStep(p) ==
  \/ proc[p].pc = "acquire" /\ proc'[p].pc = "release" /\ ~proc'[p].acquired
  \/ proc[p].pc = "release" /\ ~proc[p].acquired /\ proc'[p].pc = "idle"

\* C31: an operation whose acquire timed out leaves the locks as they are on
\* its whole way out: the key stays with the operation that holds it.
C31_TimedOutLeavesLock ==
  [][\A p \in Workers : TimedOutStep(p) => lock' = lock]_vars

\* An operation whose acquire timed out is in its finally clause, and the other
\* worker, in its body on the same key, holds the lock of the key.
C31_Witness ==
  \E p, q \in Workers :
    /\ p # q
    /\ proc[p].pc = "release"
    /\ ~proc[p].acquired
    /\ proc[p].err = "CONFLICT_LOCK"
    /\ InBody(q)
    /\ proc[q].key = proc[p].key
    /\ lock[proc[p].key] = q

\* ---- C32
\* C32: a stop that is about to hand NOT_FOUND to its caller has torn nothing
\* down: it holds no list of containers to stop and delete, and every container
\* and network of its key is as it found them.
C32_NotFoundTouchedNothing ==
  \A p \in Workers :
    (proc[p].op = "stop" /\ proc[p].pc = "release" /\ Outcome(p) = "NOT_FOUND") =>
      /\ proc[p].instance_containers = {}
      /\ proc[p].networks_to_remove = {}

\* ---- C33
\* The step in which a start creates its service network, the first resource
\* it creates.  No daemon call of a start but the running-container query
\* comes before it, so `faulted` at this step says that the query failed.
CreatesFirst(p) ==
  /\ proc[p].op = "start"
  /\ proc[p].pc = "start_svc"
  /\ svc_net(proc[p].key[1], proc[p].key[2], proc[p].iid) \in NetworkNames' \ NetworkNames

\* C33: a start creates its first resource only when the daemon has answered
\* its running-container query: a start whose query failed creates nothing.
C33_CreatesOnlyAfterAnswer ==
  [][\A p \in Workers : CreatesFirst(p) => ~proc[p].faulted]_vars

\* ---- C34
\* The containers start p did not create: every container of the daemon that
\* created_containers does not hold.
NotCreatedBy(p) == {c \in containers : c.id \notin Range(proc[p].created_containers)}

\* C34: the rollback of a failing start deletes and changes only containers
\* that this start has created: every other container, one of the same key
\* that was there before the start included, is after each step of the rollback
\* what it was before it.
C34_RollbackKeepsOtherContainers ==
  [][\A p \in Workers : RollbackStep(p) => NotCreatedBy(p) \subseteq containers']_vars

\* A start has created a container, failed on the name of the stopped container
\* that was there before it and deleted its own container again: the stopped
\* container of its key is still in the daemon.
C34_Witness ==
  \E p \in Workers :
    /\ proc[p].op = "start"
    /\ proc[p].pc \in {"cn", "release"}
    /\ proc[p].err = "INTERNAL"
    /\ proc[p].created_containers # << >>
    /\ Range(proc[p].created_containers) \cap ContainerIds = {}
    /\ LeftoverExited \in get_containers(proc[p].key[1], proc[p].key[2], FALSE)

\* ---- C35
\* C35: the container name of two different (challenge, team, container name)
\* triples is never the same, so the create of a container of one key never
\* meets the name of a container of another key.
C35_ContainerNameInjective ==
  (call.fn = "containers.create" /\ call.done /\ call.first # call.second) =>
    /\ call.result.first # call.result.second
    /\ ~call.result.conflict

\* ---- C36
\* The networks of the instance that container c belongs to.
NetworksOf(c) ==
  {n \in networks :
     n.name \in {svc_net(c.labels.challenge, c.labels.team_id, c.labels.instance_id),
                 eg_net(c.labels.challenge, c.labels.team_id, c.labels.instance_id)}}

\* C36: what one start has created agrees on lifetime and identity: every
\* container carries expires_at = started_at + challenge.timeout, the containers
\* of one instance carry the same started_at, expires_at, hostname and
\* instance_id, and the networks of the instance carry that expires_at.
C36_InstanceLabelsAgree ==
  /\ \A c \in containers :
       c.labels.challenge \in DOMAIN challenges =>
         /\ c.labels.expires_at = c.labels.started_at + challenges[c.labels.challenge].timeout
         /\ c.labels.hostname = hostname(c.labels.challenge, c.labels.instance_id)
         /\ \A d \in containers :
              d.labels.instance_id = c.labels.instance_id =>
                /\ d.labels.started_at = c.labels.started_at
                /\ d.labels.expires_at = c.labels.expires_at
                /\ d.labels.hostname = c.labels.hostname
         /\ \A n \in NetworksOf(c) : n.labels.expires_at = c.labels.expires_at
  /\ \A n, m \in networks :
       (n.name[3] = m.name[3] /\ n.name[4] = m.name[4] /\ n.name[5] = m.name[5])
         => n.labels.expires_at = m.labels.expires_at

\* A start has created both networks and both containers of web1, and the
\* clock has moved on since it took its start time.
C36_Witness ==
  \E p \in Workers :
    /\ proc[p].op = "start"
    /\ proc[p].pc \in {"start_run", "release"}
    /\ proc[p].err = "none"
    /\ now > proc[p].started_at
    /\ Len(proc[p].created_containers) = 2
    /\ Range(proc[p].created_containers) \subseteq ContainerIds
    /\ \E c \in containers :
         /\ c.id \in Range(proc[p].created_containers)
         /\ Cardinality(NetworksOf(c)) = 2
=============================================================================
